---- MODULE Spec2Model ----
(***************************************************************************)
(* Content-to-page rendering pipeline of the pavlenko.tech static blog     *)
(* generator: the paginators, the content loader / page assembler of       *)
(* src/engine/content.js and its template engine.                          *)
(*                                                                         *)
(* Several specifications share the module's variables; each drives one    *)
(* component and leaves the variables of the others at their idle value:   *)
(*   SpecPaginate  the three paginators                                    *)
(*   SpecBuild     the three content pipelines: ContentProcessor with the  *)
(*                 write loop of generateStaticSite, scripts/lib/          *)
(*                 siteBuilder.js, scripts/static-site-generator.js        *)
(*   SpecTemplate  TemplateEngine.render                                   *)
(*   SpecConfig    scripts/lib/configManager.js loadConfig                 *)
(*   SpecCache     concurrent builders loading templates through a cache   *)
(*   SpecPosts     siteBuilder.js loading posts whose frontmatter carries  *)
(*                 further keys                                            *)
(*   SpecReading   the reading time of a post in the two loaders           *)
(*   SpecRouter    the route handling of the single-page application       *)
(*   SpecFetch     fetchContentList and its retries                        *)
(*   SpecFiles     the file cache of the file handler                      *)
(***************************************************************************)
EXTENDS Integers, Sequences, FiniteSets, TLC

VARIABLES
    \* ---- paginator ----
    items,        \* the ordered list handed to the paginator
    pageSize,     \* perPage / postsPerPage as configured
    pagResult,    \* [status, impl, pages]: what the paginator call produced
    \* ---- content loader / page assembler ----
    files,        \* posts/ in listing order: [file, slug, date, tags, broken]
    posts,        \* the loaded posts (ContentProcessor.posts, loadAllPosts())
    sitePages,    \* ContentProcessor.pages: url -> page record
    written,      \* output files written so far: sequence of [path, html]
    buildPc,      \* position of the build, "init" before it starts
    buildError,   \* error the build stopped with, "" when none
    tags,         \* the tag index: sequence of [name, posts] in key order
    sitemap,      \* the <url> entries of sitemap.xml: [loc, lastmod]
    warned,       \* files a warning or error was printed for and that were skipped
    exitCode,     \* exit code of the build process, NotExited while it runs
    \* ---- template engine ----
    tplName,      \* name of the template handed to render
    templates,    \* templatesDir: template name -> token sequence
    data,         \* the data context handed to render
    cache,        \* TemplateEngine.cache: template name -> template
    rendered,     \* [status, err, out, html]: what render produced and what is written
    \* ---- configuration manager ----
    configFile,   \* config.json: missing, not JSON, or the parsed object
    config,       \* the module variable config of configManager.js, null at first
    defaultConfig,  \* the object DEFAULT_CONFIG, which the code can write to
    \* ---- concurrent template loads ----
    renders,      \* per builder: the templates it has yet to load and what it got
    \* ---- reading time ----
    postBody,     \* the Markdown body of a post, as a sequence of pieces
    wordsPerMinute,  \* content.wordsPerMinute of the configuration
    readingTime,  \* [impl, minutes]: the reading time a loader gave the post
    \* ---- single-page application ----
    spaState,     \* state of the application: [currentRoute, isLoading]
    history,      \* the session history of the browser: pathnames, oldest first
    historyIndex, \* the entry the browser is at; its pathname is the location
    handling,     \* the calls of handleRouteChange that wait for their route handler
    lastCall,     \* the last call of handleRouteChange: [path, whileLoading, ran]
    \* ---- content list of the application ----
    fetchList,    \* a call of fetchContentList: [retries, outcomes, status, result]
    \* ---- file handler ----
    fileCache,    \* the Map fileCache in insertion order: [path, content, timestamp]
    fileConfig,   \* the module variable config: [enableCache, cacheTTL]
    clock,        \* Date.now()
    pendingReads, \* paths of the readFile calls that wait for the disk
    fileLog       \* [ops, read, add]: the last readFile and the last addToCache

pagVars == <<items, pageSize, pagResult>>
buildVars == <<files, posts, sitePages, written, buildPc, buildError,
              tags, sitemap, warned, exitCode>>
tplVars == <<tplName, templates, data, cache, rendered>>
cfgVars == <<configFile, config, defaultConfig>>
readVars == <<postBody, wordsPerMinute, readingTime>>
\* the variables of the specifications that follow the template engine's
spaVars == <<spaState, history, historyIndex, handling, lastCall>>
fileVars == <<fileCache, fileConfig, clock, pendingReads, fileLog>>
restVars == <<renders, readVars, spaVars, fetchList, fileVars>>
vars == <<items, pageSize, pagResult, files, posts, sitePages, written,
          buildPc, buildError, tags, sitemap, warned, exitCode,
          tplName, templates, data, cache, rendered,
          configFile, config, defaultConfig, renders,
          postBody, wordsPerMinute, readingTime,
          spaState, history, historyIndex, handling, lastCall, fetchList,
          fileCache, fileConfig, clock, pendingReads, fileLog>>

(***************************************************************************)
(* Bounds                                                                  *)
(***************************************************************************)
MaxItems == 4          \* longest item list handed to a paginator
MaxPageSize == 3       \* largest page size tried
MinPageSize == 0 - 1   \* smallest page size tried (invalid sizes included)
MaxLoop == MaxItems + 2  \* iterations after which a loop that cannot end is cut

Docs == {"d1", "d2"}

Min(a, b) == IF a < b THEN a ELSE b
Max(a, b) == IF a > b THEN a ELSE b

\* all sequences over S of length 0..n
SeqsUpTo(S, n) == UNION {[1..k -> S] : k \in 0..n}

\* JavaScript objects as functions from their own keys to their values
\* { ...a, ...b }
Spread(a, b) ==
    [k \in DOMAIN a \cup DOMAIN b |-> IF k \in DOMAIN b THEN b[k] ELSE a[k]]
Pick(obj, keys) == [k \in keys |-> obj[k]]
WithField(obj, key, value) ==
    [k \in DOMAIN obj \cup {key} |-> IF k = key THEN value ELSE obj[k]]

(***************************************************************************)
(* JavaScript numbers as far as the paginators need them:                  *)
(* Math.ceil(n / d) for an integer n >= 0 and an integer d.                *)
(***************************************************************************)
Num(n) == [k |-> "num", n |-> n]
Infinity == [k |-> "inf", n |-> 0]
NaN == [k |-> "nan", n |-> 0]

MathCeilDiv(n, d) ==
    IF d > 0 THEN Num((n + d - 1) \div d)
    ELSE IF d < 0 THEN Num(0 - (n \div (0 - d)))
    ELSE IF n = 0 THEN NaN
    ELSE Infinity

\* i <= x and i < x where x is a JavaScript number; comparisons with NaN are false
LessEq(i, x) == IF x.k = "num" THEN i <= x.n ELSE x.k = "inf"
Less(i, x) == IF x.k = "num" THEN i < x.n ELSE x.k = "inf"
Greater(x, i) == IF x.k = "num" THEN x.n > i ELSE x.k = "inf"

\* Array.prototype.slice(start, end)
Slice(s, start, end) ==
    LET len == Len(s)
        from == IF start < 0 THEN Max(len + start, 0) ELSE Min(start, len)
        to == IF end < 0 THEN Max(len + end, 0) ELSE Min(end, len)
    IN  SubSeq(s, from + 1, to)

DefaultPostsPerPage == 10
DefaultWordsPerMinute == 200

Null == "<null>"
PageUrl(n) == "/page/" \o ToString(n)

(***************************************************************************)
(* scripts/lib/templateEngine.js  generatePagination: the links of the     *)
(* pagination bar of page currentPage.  prev and next are the href of the  *)
(* link, Null for the disabled <span>; numbered holds the hrefs of the     *)
(* numbered links in the order they are written.                           *)
(***************************************************************************)
PageHref(basePath, n) ==
    IF n = 1 THEN basePath ELSE basePath \o "page/" \o ToString(n) \o "/"
NoLinks == [prev |-> Null, numbered |-> <<>>, next |-> Null]

\* faulty variant: the next link is written on the last page too
templatePagination_nextOnLast(currentPage, totalPages, basePath) ==
    IF totalPages <= 1 THEN NoLinks
    ELSE [prev |-> IF currentPage > 1 THEN PageHref(basePath, currentPage - 1)
                   ELSE Null,
          numbered |-> <<>>,
          next |-> PageHref(basePath, currentPage + 1)]

\* faulty variant: the link to the last page is written on the last pages too
templatePagination_lastBeyond(currentPage, totalPages, basePath) ==
    IF totalPages <= 1 THEN NoLinks
    ELSE [prev |-> IF currentPage > 1 THEN PageHref(basePath, currentPage - 1)
                   ELSE Null,
          numbered |-> <<PageHref(basePath, Min(currentPage + 3, totalPages + 1))>>,
          next |-> IF currentPage < totalPages
                   THEN PageHref(basePath, currentPage + 1) ELSE Null]

templatePagination(currentPage, totalPages, basePath) ==
    IF totalPages <= 1 THEN NoLinks
    ELSE LET range == 2
             startPage0 == Max(1, currentPage - range)
             endPage0 == Min(totalPages, currentPage + range)
             widen == endPage0 - startPage0 < 4 /\ totalPages > 4
             endPage == IF widen /\ startPage0 = 1
                        THEN Min(startPage0 + 4, totalPages) ELSE endPage0
             startPage == IF widen /\ startPage0 # 1 /\ endPage0 = totalPages
                          THEN Max(endPage0 - 4, 1) ELSE startPage0
             inRange == [i \in 1..(endPage - startPage + 1) |-> startPage + i - 1]
             others == SelectSeq(inRange, LAMBDA i : i # currentPage)
         IN  [prev |-> IF currentPage > 1 THEN PageHref(basePath, currentPage - 1)
                       ELSE Null,
              numbered |->
                  (IF startPage > 1 THEN <<basePath>> ELSE <<>>)
                  \o [i \in 1..Len(others) |-> PageHref(basePath, others[i])]
                  \o (IF endPage < totalPages
                      THEN <<basePath \o "page/" \o ToString(totalPages) \o "/">>
                      ELSE <<>>),
              next |-> IF currentPage < totalPages
                       THEN PageHref(basePath, currentPage + 1) ELSE Null]

(***************************************************************************)
(* scripts/lib/siteBuilder.js  paginateItems                               *)
(***************************************************************************)
RECURSIVE paginateItemsLoop(_, _, _, _, _)
paginateItemsLoop(its, perPage, totalPages, page, pages) ==
    IF ~LessEq(page, totalPages) THEN [status |-> "returned", pages |-> pages]
    ELSE IF page > MaxLoop THEN [status |-> "diverged", pages |-> pages]
    ELSE LET start == (page - 1) * perPage
             end == start + perPage
         IN  paginateItemsLoop(its, perPage, totalPages, page + 1,
                 Append(pages, [page |-> page,
                                itemsForPage |-> Slice(its, start, end),
                                pagination |-> Greater(totalPages, 1),
                                \* the html of generatePagination; with a page
                                \* count that is no finite number the loop
                                \* does not end and no page is used
                                links |-> IF totalPages.k = "num"
                                          THEN templatePagination(page, totalPages.n, "/")
                                          ELSE NoLinks,
                                isFirstPage |-> page = 1]))

\* faulty variant: the page count is rounded down, a last partial page is lost
paginateItems_floor(its, perPage) ==
    paginateItemsLoop(its, perPage,
                      IF perPage >= 1 THEN Num(Len(its) \div perPage)
                      ELSE MathCeilDiv(Len(its), perPage), 1, <<>>)

paginateItems(its, perPage) ==
    paginateItemsLoop(its, perPage, MathCeilDiv(Len(its), perPage), 1, <<>>)

(***************************************************************************)
(* scripts/lib/configManager.js  validateConfig, as far as                 *)
(* content.postsPerPage goes: a falsy value is replaced by the default,    *)
(* nothing is rejected.                                                    *)
(***************************************************************************)
validateConfig(postsPerPage) ==
    IF postsPerPage = 0 THEN DefaultPostsPerPage ELSE postsPerPage

(***************************************************************************)
(* The schema-checking configuration manager (CONFIG_SCHEMA, validateValue,*)
(* validateConfig, loadConfig): a value below the schema's min is reported *)
(* in errors, loadConfig prints the errors and returns the configuration.  *)
(***************************************************************************)
SchemaMinPostsPerPage == 1

validateValue(value) ==
    IF value < SchemaMinPostsPerPage
    THEN <<"content.postsPerPage should be at least 1">> ELSE <<>>

loadConfig(postsPerPage) ==
    LET errors == validateValue(postsPerPage)
    IN  [postsPerPage |-> postsPerPage, valid |-> errors = <<>>,
         warnings |-> errors, thrown |-> ""]

(***************************************************************************)
(* scripts/static-site-generator.js  generatePagination                    *)
(***************************************************************************)
RECURSIVE generatePaginationLoop(_, _, _, _, _)
generatePaginationLoop(its, postsPerPage, totalPages, i, pages) ==
    IF ~Less(i, totalPages) THEN [status |-> "returned", pages |-> pages]
    ELSE IF i >= MaxLoop THEN [status |-> "diverged", pages |-> pages]
    ELSE LET pageNumber == i + 1
             start == i * postsPerPage
             end == start + postsPerPage
         IN  generatePaginationLoop(its, postsPerPage, totalPages, i + 1,
                 Append(pages, [number |-> pageNumber,
                                posts |-> Slice(its, start, end),
                                hasPrev |-> pageNumber > 1,
                                hasNext |-> Less(pageNumber, totalPages),
                                prevUrl |-> IF pageNumber = 2 THEN "/"
                                            ELSE PageUrl(pageNumber - 1),
                                nextUrl |-> PageUrl(pageNumber + 1),
                                total |-> totalPages,
                                url |-> IF pageNumber = 1 THEN "/"
                                        ELSE PageUrl(pageNumber)]))

\* faulty variant: one page too many (the loop bound is inclusive)
generatePagination_extraPage(its, postsPerPage) ==
    LET totalPages == MathCeilDiv(Len(its), postsPerPage)
    IN  generatePaginationLoop(its, postsPerPage,
            IF totalPages.k = "num" THEN Num(totalPages.n + 1) ELSE totalPages,
            0, <<>>)

generatePagination(its, postsPerPage) ==
    generatePaginationLoop(its, postsPerPage,
                           MathCeilDiv(Len(its), postsPerPage), 0, <<>>)

(***************************************************************************)
(* src/engine/content.js  ContentProcessor.generatePages, index pages      *)
(***************************************************************************)
RECURSIVE generateIndexPagesLoop(_, _, _, _, _)
generateIndexPagesLoop(ps, postsPerPage, totalPages, page, pages) ==
    IF ~LessEq(page, totalPages) THEN [status |-> "returned", pages |-> pages]
    ELSE IF page > MaxLoop THEN [status |-> "diverged", pages |-> pages]
    ELSE LET startIndex == (page - 1) * postsPerPage
             endIndex == startIndex + postsPerPage
         IN  generateIndexPagesLoop(ps, postsPerPage, totalPages, page + 1,
                 Append(pages,
                    [pageSlug |-> IF page = 1 THEN "/" ELSE PageUrl(page),
                     posts |-> Slice(ps, startIndex, endIndex),
                     pagination |->
                        [currentPage |-> page,
                         totalPages |-> totalPages,
                         prevPage |-> IF page > 1
                                      THEN (IF page = 2 THEN "/"
                                            ELSE PageUrl(page - 1))
                                      ELSE Null,
                         nextPage |-> IF Less(page, totalPages)
                                      THEN PageUrl(page + 1) ELSE Null]]))

generateIndexPages(ps, configured) ==
    LET postsPerPage == IF configured = 0 THEN DefaultPostsPerPage ELSE configured
    IN  generateIndexPagesLoop(ps, postsPerPage,
                               MathCeilDiv(Len(ps), postsPerPage), 1, <<>>)

(***************************************************************************)
(* Idle values of the three components                                     *)
(***************************************************************************)
PagIdle == [status |-> "idle", impl |-> "", pages |-> <<>>]
RenderIdle == [status |-> "idle", err |-> "", out |-> "", html |-> ""]

PagQuiet == items = <<>> /\ pageSize = 1 /\ pagResult = PagIdle
BuildQuiet ==
    /\ files = <<>> /\ posts = <<>> /\ sitePages = <<>> /\ written = <<>>
    /\ buildPc = "init" /\ buildError = ""
    /\ tags = <<>> /\ sitemap = <<>> /\ warned = {} /\ exitCode = 0 - 1
TplQuiet ==
    /\ tplName = "" /\ templates = <<>> /\ data = <<>> /\ cache = <<>>
    /\ rendered = RenderIdle

\* scripts/lib/configManager.js DEFAULT_CONFIG; the two directories stand for
\* path.join(__dirname, '../../content') and path.join(__dirname, '../../dist')
JsNull == [null |-> TRUE]
IsObject(v) == "null" \notin DOMAIN v
DEFAULT_CONFIG ==
    [site |-> [title |-> "Pavlenko Tech Blog", description |-> "Tech blog",
               language |-> "ru-RU"],
     content |-> [postsPerPage |-> DefaultPostsPerPage],
     paths |-> [contentDir |-> "content", outputDir |-> "dist"]]

CfgQuiet == configFile = JsNull /\ config = JsNull /\ defaultConfig = DEFAULT_CONFIG
RendersQuiet == renders = <<>>
ReadIdle == [impl |-> "", minutes |-> 0]
ReadQuiet == postBody = <<>> /\ wordsPerMinute = DefaultWordsPerMinute /\ readingTime = ReadIdle
NoCall == [path |-> "", whileLoading |-> FALSE, ran |-> FALSE]
SpaQuiet ==
    /\ spaState = [currentRoute |-> Null, isLoading |-> FALSE]
    /\ history = <<>> /\ historyIndex = 0 /\ handling = <<>> /\ lastCall = NoCall
FetchIdle == [retries |-> 0, outcomes |-> <<>>, status |-> "idle", result |-> <<>>]
FetchQuiet == fetchList = FetchIdle
NoRead == [path |-> 0, fromCache |-> FALSE, age |-> 0, ttl |-> 0, expired |-> FALSE,
           removed |-> FALSE]
NoAdd == [path |-> 0, full |-> FALSE, oldest |-> 0, evicted |-> 0]
FileQuiet ==
    /\ fileCache = <<>> /\ fileConfig = [enableCache |-> TRUE, cacheTTL |-> 2]
    /\ clock = 0 /\ pendingReads = <<>>
    /\ fileLog = [ops |-> 0, read |-> NoRead, add |-> NoAdd]
RestQuiet == RendersQuiet /\ ReadQuiet /\ SpaQuiet /\ FetchQuiet /\ FileQuiet

(***************************************************************************)
(* SpecPaginate: a list and a page size are chosen, one paginator runs.    *)
(***************************************************************************)
InitPaginate ==
    /\ items \in SeqsUpTo(Docs, MaxItems)
    /\ pageSize \in MinPageSize..MaxPageSize
    /\ pagResult = PagIdle
    /\ BuildQuiet /\ TplQuiet /\ CfgQuiet /\ RestQuiet

Ran(impl, r) == [status |-> r.status, impl |-> impl, pages |-> r.pages]

PaginateItems ==
    /\ pagResult.status = "idle"
    /\ pagResult' = Ran("paginateItems", paginateItems(items, pageSize))
    /\ UNCHANGED <<items, pageSize, buildVars, tplVars, cfgVars, restVars>>

GeneratePagination ==
    /\ pagResult.status = "idle"
    /\ pagResult' = Ran("generatePagination", generatePagination(items, pageSize))
    /\ UNCHANGED <<items, pageSize, buildVars, tplVars, cfgVars, restVars>>

GenerateIndexPages ==
    /\ pagResult.status = "idle"
    /\ pagResult' = Ran("generatePages", generateIndexPages(items, pageSize))
    /\ UNCHANGED <<items, pageSize, buildVars, tplVars, cfgVars, restVars>>

\* siteBuilder.buildHomePage: the page size comes from the loaded configuration
BuildHomePage ==
    /\ pagResult.status = "idle"
    /\ pagResult' = Ran("buildHomePage",
                        paginateItems(items, validateConfig(pageSize)))
    /\ UNCHANGED <<items, pageSize, buildVars, tplVars, cfgVars, restVars>>

\* the same call behind the schema-checking loadConfig
BuildHomePageSchema ==
    /\ pagResult.status = "idle"
    /\ LET cfg == loadConfig(pageSize)
       IN  pagResult' =
             IF cfg.thrown # ""
             THEN [status |-> cfg.thrown, impl |-> "loadConfig", pages |-> <<>>]
             ELSE Ran("loadConfig", paginateItems(items, cfg.postsPerPage))
    /\ UNCHANGED <<items, pageSize, buildVars, tplVars, cfgVars, restVars>>

NextPaginate ==
    \/ PaginateItems
    \/ GeneratePagination
    \/ GenerateIndexPages
    \/ BuildHomePage
    \/ BuildHomePageSchema

SpecPaginate == InitPaginate /\ [][NextPaginate]_vars

(***************************************************************************)
(* SpecBuild: the three content pipelines of the repository, each run on   *)
(* the same posts/ directory:                                              *)
(*   src/engine/content.js ContentProcessor.processContent and the write   *)
(*     loop of generateStaticSite,                                         *)
(*   scripts/lib/siteBuilder.js buildSite,                                 *)
(*   scripts/static-site-generator.js loadAllPosts and extractTags.        *)
(***************************************************************************)
MaxFiles == 2                    \* content files in posts/
FileNames == {"Hello", "hello", "world"}   \* file names without ".md"
SlugAttrs == {"", "world"}       \* frontmatter slug, "" when absent
Dates == 1..2                    \* frontmatter dates, as days
TagLists == {<<>>, <<"ai">>, <<"AI", "ai">>, <<"constructor">>}  \* frontmatter tags
ConstructorPostsPerPage == 5
NotExited == 0 - 1               \* exitCode while the process is running

\* a content file: a readable one carries its frontmatter, one that cannot
\* be read or parsed (broken) carries nothing
\* extra holds the further keys of the frontmatter, none in these files
NoExtra == [key \in {} |-> ""]
ContentFiles ==
    [file : FileNames, slug : SlugAttrs, date : Dates, tags : TagLists,
     broken : {FALSE}, extra : {NoExtra}]
    \cup [file : FileNames, slug : {""}, date : {1}, tags : {<<>>}, broken : {TRUE},
          extra : {NoExtra}]

ReadError == "Error: cannot read or parse the file"
TypeError == "TypeError"

\* slugify(name, { lower: true, strict: true }) on the names above
slugify(name) ==
    CASE name = "Hello" -> "hello"
      [] name = "hello" -> "hello"
      [] name = "world" -> "world"
      [] name = "AI" -> "ai"
      [] OTHER -> name

\* the post object loadPosts builds from one file (lines 134-189)
PostOfFile(f) ==
    LET slug == IF f.slug # "" THEN f.slug ELSE slugify(f.file)
    IN  [slug |-> slug,
         isoDate |-> f.date,
         tags |-> f.tags,
         content |-> "<p>" \o f.file \o "</p>",
         url |-> "/posts/" \o slug,
         nextPost |-> Null,
         previousPost |-> Null]

\* this.posts.sort((a, b) => new Date(b.isoDate) - new Date(a.isoDate)),
\* a stable sort: insertion behind every post that is not older
RECURSIVE InsertByDate(_, _)
InsertByDate(p, sorted) ==
    IF sorted = <<>> THEN <<p>>
    ELSE IF Head(sorted).isoDate >= p.isoDate
         THEN <<Head(sorted)>> \o InsertByDate(p, Tail(sorted))
         ELSE <<p>> \o sorted

RECURSIVE SortByDate(_, _)
SortByDate(ps, sorted) ==
    IF ps = <<>> THEN sorted
    ELSE SortByDate(Tail(ps), InsertByDate(Head(ps), sorted))

\* lines 196-210: next/previous links
LinkPosts(ps) ==
    [i \in 1..Len(ps) |->
        [ps[i] EXCEPT !.nextPost = IF i > 1 THEN ps[i - 1].url ELSE Null,
                      !.previousPost = IF i < Len(ps) THEN ps[i + 1].url ELSE Null]]

\* what this.posts becomes when every file could be read
loadPosts(fs) ==
    LinkPosts(SortByDate([i \in 1..Len(fs) |-> PostOfFile(fs[i])], <<>>))

\* A tag index is a JavaScript object used as a map from tag to bucket; it is
\* kept as the sequence of its own keys in insertion order.  Reading a name
\* that is no own key finds what every object inherits from Object.prototype.
InheritedKeys == {"constructor"}
HasOwnTag(tgs, tag) == \E i \in 1..Len(tgs) : tgs[i].name = tag

\* tags[tag].posts.push(entry), after "if (!tags[tag]) tags[tag] = ..."
TagsPush(tgs, tag, entry) ==
    IF HasOwnTag(tgs, tag)
    THEN [i \in 1..Len(tgs) |->
            IF tgs[i].name = tag
            THEN [tgs[i] EXCEPT !.posts = Append(tgs[i].posts, entry)]
            ELSE tgs[i]]
    ELSE Append(tgs, [name |-> tag, posts |-> <<entry>>])

\* tags.forEach(...) of one file (lines 167-176, and extractTags of the
\* scripts): an inherited name is truthy, so no bucket is made for it and the
\* push on what was found throws
RECURSIVE IndexTags(_, _, _)
IndexTags(tagList, entry, tgs) ==
    IF tagList = <<>> THEN [err |-> "", tags |-> tgs]
    ELSE IF ~HasOwnTag(tgs, Head(tagList)) /\ Head(tagList) \in InheritedKeys
         THEN [err |-> TypeError, tags |-> tgs]
         ELSE IndexTags(Tail(tagList), entry, TagsPush(tgs, Head(tagList), entry))

\* the callbacks of postFiles.map(async file => ...) run one after the other
\* in listing order; one that throws rejects its promise and the others still
\* run; err is the first rejection, which is what Promise.all rejects with
RECURSIVE IndexFiles(_, _, _)
IndexFiles(fs, tgs, err) ==
    IF fs = <<>> THEN [err |-> err, tags |-> tgs]
    ELSE LET f == Head(fs)
             r == IF f.broken THEN [err |-> ReadError, tags |-> tgs]
                  ELSE IndexTags(f.tags,
                                 [slug |-> PostOfFile(f).slug, url |-> PostOfFile(f).url],
                                 tgs)
         IN  IndexFiles(Tail(fs), r.tags, IF err # "" THEN err ELSE r.err)

\* this.pages[url] = page: an existing key keeps its place and gets the new
\* value, a new key is added at the end
PagesPut(pages, url, page) ==
    IF \E i \in 1..Len(pages) : pages[i].url = url
    THEN [i \in 1..Len(pages) |-> IF pages[i].url = url THEN page ELSE pages[i]]
    ELSE Append(pages, page)

RECURSIVE PutPostPages(_, _)
PutPostPages(ps, pages) ==
    IF ps = <<>> THEN pages
    ELSE PutPostPages(Tail(ps),
            PagesPut(pages, Head(ps).url,
                     [url |-> Head(ps).url, template |-> "pages/post.html",
                      post |-> Head(ps)]))

RECURSIVE PutIndexPages(_, _)
PutIndexPages(ixs, pages) ==
    IF ixs = <<>> THEN pages
    ELSE PutIndexPages(Tail(ixs),
            PagesPut(pages, Head(ixs).pageSlug,
                     [url |-> Head(ixs).pageSlug, template |-> "pages/home.html",
                      posts |-> Head(ixs).posts,
                      pagination |-> Head(ixs).pagination]))

generatePages(ps, postsPerPage) ==
    PutIndexPages(generateIndexPages(ps, postsPerPage).pages,
                  PutPostPages(ps, <<>>))

\* ContentProcessor.generateTagPages
\* tag.posts.map(...): the summary with the date of the first post of that slug
TagPosts(summaries, ps) ==
    [i \in 1..Len(summaries) |->
        LET k == {j \in 1..Len(ps) : ps[j].slug = summaries[i].slug}
        IN  [slug |-> summaries[i].slug, url |-> summaries[i].url,
             isoDate |-> IF k = {} THEN 0
                         ELSE ps[CHOOSE j \in k : \A j2 \in k : j <= j2].isoDate]]

RECURSIVE PutTagPages(_, _, _)
PutTagPages(tgs, ps, pages) ==
    IF tgs = <<>> THEN pages
    ELSE LET url == "/tags/" \o slugify(Head(tgs).name)
         IN  PutTagPages(Tail(tgs), ps,
                PagesPut(pages, url,
                         [url |-> url, template |-> "pages/tag.html",
                          tag |-> [name |-> Head(tgs).name,
                                   posts |-> TagPosts(Head(tgs).posts, ps)]]))

\* .sort((a, b) => b.count - a.count), stable
RECURSIVE InsertByCount(_, _)
InsertByCount(t, sorted) ==
    IF sorted = <<>> THEN <<t>>
    ELSE IF Head(sorted).count >= t.count
         THEN <<Head(sorted)>> \o InsertByCount(t, Tail(sorted))
         ELSE <<t>> \o sorted

RECURSIVE SortedTags(_, _)
SortedTags(tgs, sorted) ==
    IF tgs = <<>> THEN sorted
    ELSE SortedTags(Tail(tgs),
            InsertByCount([name |-> Head(tgs).name, count |-> Len(Head(tgs).posts),
                           url |-> "/tags/" \o slugify(Head(tgs).name)], sorted))

generateTagPages(pages, tgs, ps, aboutExists) ==
    LET tagged == PutTagPages(tgs, ps, pages)
        index == PagesPut(tagged, "/tags",
                          [url |-> "/tags", template |-> "pages/tags.html",
                           tags |-> SortedTags(tgs, <<>>)])
        about == IF aboutExists
                 THEN PagesPut(index, "/about",
                               [url |-> "/about", template |-> "pages/about.html"])
                 ELSE index
    IN  PagesPut(about, "/404", [url |-> "/404", template |-> "pages/404.html"])

\* ContentProcessor.generateSitemap: one <url> per page but the 404 page; loc
\* is kept without the constant https://hostname in front of the url
StartsWith(s, prefix) ==
    Len(s) >= Len(prefix) /\ SubSeq(s, 1, Len(prefix)) = prefix

RECURSIVE generateSitemap(_)
generateSitemap(pages) ==
    IF pages = <<>> THEN <<>>
    ELSE IF Head(pages).url = "/404" THEN generateSitemap(Tail(pages))
    ELSE <<[loc |-> Head(pages).url,
            lastmod |-> IF StartsWith(Head(pages).url, "/posts/")
                        THEN Head(pages).post.isoDate ELSE 0]>>
         \o generateSitemap(Tail(pages))

\* processContent lines 103-107: this.pages['/'] = { ...this.pages['/'], ... };
\* without a first index page this makes a page that has no template
AddHeaderData(pages) ==
    IF \E i \in 1..Len(pages) : pages[i].url = "/" THEN pages
    ELSE Append(pages, [url |-> "/", template |-> Null])

\* generateStaticSite lines 102-113: the file a page is written to
FinalPath(url) ==
    IF url = "/" THEN "index.html"
    ELSE SubSeq(url, 2, Len(url)) \o ".html"

\* what is written for a page: a post page carries the html of its post
PageHtml(page) ==
    IF page.template = "pages/post.html" THEN page.post.content
    ELSE IF page.template = "pages/tag.html" THEN "tag " \o page.tag.name
    ELSE page.template

(***************************************************************************)
(* scripts/lib/siteBuilder.js                                              *)
(***************************************************************************)
\* processPostFile: the post object, or null when reading or parsing threw;
\* of the frontmatter the model carries date and tags
NullPost == [null |-> TRUE]
IsNullPost(p) == "null" \in DOMAIN p

\* the object literal ends with ...postData: a key of the frontmatter
\* replaces the value computed for the same key
processPostFile(f) ==
    IF f.broken THEN NullPost
    ELSE Spread([file |-> f.file, date |-> f.date, tags |-> f.tags,
                 url |-> "/posts/" \o f.file \o "/"],
                f.extra)

\* .sort((a, b) => new Date(b.date) - new Date(a.date)), stable
RECURSIVE InsertNewestFirst(_, _)
InsertNewestFirst(p, sorted) ==
    IF sorted = <<>> THEN <<p>>
    ELSE IF Head(sorted).date >= p.date
         THEN <<Head(sorted)>> \o InsertNewestFirst(p, Tail(sorted))
         ELSE <<p>> \o sorted

RECURSIVE SortNewestFirst(_, _)
SortNewestFirst(ps, sorted) ==
    IF ps = <<>> THEN sorted
    ELSE SortNewestFirst(Tail(ps), InsertNewestFirst(Head(ps), sorted))

loadAllPosts(fs) ==
    SortNewestFirst(
        SelectSeq([i \in 1..Len(fs) |-> processPostFile(fs[i])],
                  LAMBDA p : ~IsNullPost(p)),
        <<>>)

\* extractTags: posts.reduce((tags, post) => ..., {})
RECURSIVE extractTagsFrom(_, _)
extractTagsFrom(ps, tgs) ==
    IF ps = <<>> THEN [err |-> "", tags |-> tgs]
    ELSE LET r == IndexTags(Head(ps).tags, Head(ps), tgs)
         IN  IF r.err # "" THEN r ELSE extractTagsFrom(Tail(ps), r.tags)

extractTags(ps) == extractTagsFrom(ps, <<>>)

\* encodeURIComponent: letters, digits and - _ . ! ~ * ' ( ) are kept
encodeURIComponent(s) ==
    CASE s = "c#" -> "c%23"
      [] OTHER -> s

\* the files the six builders of buildSite write, in the order of the builders
HomePaths(pages) ==
    [i \in 1..Len(pages) |->
        [path |-> IF pages[i].isFirstPage THEN "index.html"
                  ELSE "page/" \o ToString(pages[i].page) \o "/index.html",
         html |-> "home"]]
PostPaths(ps) ==
    [i \in 1..Len(ps) |->
        [path |-> "posts/" \o ps[i].file \o "/index.html", html |-> ps[i].file]]
TagPaths(tgs) ==
    [i \in 1..Len(tgs) |->
        [path |-> "tags/" \o encodeURIComponent(tgs[i].name) \o "/index.html",
         html |-> "tag " \o tgs[i].name]]

\* buildSitemap: home, about, the posts, the tag pages; loc is kept without
\* the constant config.site.url in front of the path
buildSitemap(ps, tgs) ==
    <<[loc |-> "/", lastmod |-> 0], [loc |-> "/about/", lastmod |-> 0]>>
    \o [i \in 1..Len(ps) |-> [loc |-> ps[i].url, lastmod |-> ps[i].date]]
    \o [i \in 1..Len(tgs) |->
           [loc |-> "/tags/" \o encodeURIComponent(tgs[i].name) \o "/",
            lastmod |-> 0]]

(***************************************************************************)
(* scripts/static-site-generator.js  loadAllPosts (directory scan)         *)
(***************************************************************************)
\* a file that throws rejects Promise.all, the catch returns []
generatorLoadAllPosts(fs) ==
    IF \E i \in 1..Len(fs) : fs[i].broken THEN <<>>
    ELSE SortNewestFirst(
            [i \in 1..Len(fs) |->
                [file |-> fs[i].file, date |-> fs[i].date, tags |-> fs[i].tags]],
            <<>>)

\* extractTags of the generator: the same loop over posts and their tags
generatorExtractTags(ps) == extractTagsFrom(ps, <<>>)

DistinctFiles(fs) == \A i, j \in 1..Len(fs) : i # j => fs[i].file # fs[j].file

InitBuild ==
    /\ files \in {fs \in SeqsUpTo(ContentFiles, MaxFiles) : DistinctFiles(fs)}
    /\ pageSize \in {1, ConstructorPostsPerPage}
    /\ posts = <<>> /\ sitePages = <<>> /\ written = <<>>
    /\ tags = <<>> /\ sitemap = <<>> /\ warned = {} /\ exitCode = NotExited
    /\ buildPc = "init" /\ buildError = ""
    /\ items = <<>> /\ pagResult = PagIdle
    /\ TplQuiet /\ CfgQuiet /\ RestQuiet

\* ---- generateStaticSite of the engine: processContent, then the write loop ----
\* ContentProcessor.loadPosts; a rejection leaves processContent and
\* generateStaticSite, whose caller prints it and calls process.exit(1)
LoadPosts ==
    /\ buildPc = "init"
    /\ LET ix == IndexFiles(files, <<>>, "")
       IN  /\ tags' = ix.tags
           /\ buildError' = ix.err
           /\ posts' = IF ix.err = "" THEN loadPosts(files) ELSE posts
           /\ buildPc' = IF ix.err = "" THEN "loaded" ELSE "loadFailed"
           /\ exitCode' = IF ix.err = "" THEN exitCode ELSE 1
    /\ UNCHANGED <<files, sitePages, written, sitemap, warned, pagVars, tplVars, cfgVars, restVars>>

GeneratePages ==
    /\ buildPc = "loaded"
    /\ sitePages' = generatePages(posts, pageSize)
    /\ buildPc' = "paged"
    /\ UNCHANGED <<files, posts, written, tags, sitemap, warned, exitCode,
                   buildError, pagVars, tplVars, cfgVars, restVars>>

GenerateTagPages ==
    /\ buildPc = "paged"
    /\ \E aboutExists \in BOOLEAN :
          sitePages' = generateTagPages(sitePages, tags, posts, aboutExists)
    /\ buildPc' = "tagged"
    /\ UNCHANGED <<files, posts, written, tags, sitemap, warned, exitCode,
                   buildError, pagVars, tplVars, cfgVars, restVars>>

\* generateSitemap and the lines of processContent behind it
GenerateSitemap ==
    /\ buildPc = "tagged"
    /\ sitemap' = generateSitemap(sitePages)
    /\ sitePages' = AddHeaderData(sitePages)
    /\ buildPc' = "generated"
    /\ UNCHANGED <<files, posts, written, tags, warned, exitCode,
                   buildError, pagVars, tplVars, cfgVars, restVars>>

\* generateStaticSite lines 116-156: the object literal a page's context
\* starts from, written anew in every turn of the loop; site stands for the
\* configuration object
EmptyPost == [headings |-> <<>>, tags |-> <<>>, readingTime |-> "", excerpt |-> "",
              previousPost |-> Null, nextPost |-> Null]
DefaultPagination == [nextPage |-> Null, prevPage |-> Null,
                      currentPage |-> 1, totalPages |-> 1]
EmptyTag == [posts |-> <<>>, pagination |-> DefaultPagination]
\* faulty variant: one context object declared outside the loop serves every page
FreshPageData_declaredOnce ==
    IF written = <<>>
    THEN [site |-> "config", post |-> EmptyPost, tag |-> EmptyTag,
          pagination |-> DefaultPagination, posts |-> <<>>]
    ELSE data

FreshPageData ==
    [site |-> "config", post |-> EmptyPost, tag |-> EmptyTag,
     pagination |-> DefaultPagination, posts |-> <<>>]

\* lines 158-177: the page's own properties but data, template and url are
\* assigned over the literal, then those of page.data; a page of the model
\* holds each property once, as page and page.data carry the same objects
\* and { ...v, ...v } has the fields of v
PageData(page) ==
    Spread(FreshPageData, Pick(page, DOMAIN page \ {"data", "template", "url"}))

\* one turn of the loop "for (const url in pages)" of generateStaticSite;
\* page.template.includes(...) of a page without template throws outside the
\* try of the loop body, which ends the run with process.exit(1)
WritePage ==
    /\ buildPc = "generated"
    /\ Len(written) < Len(sitePages)
    /\ LET page == sitePages[Len(written) + 1]
       IN  /\ data' = PageData(page)
           /\ IF page.template = Null
              THEN /\ buildError' = TypeError
                   /\ buildPc' = "failed"
                   /\ exitCode' = 1
                   /\ written' = written
              ELSE /\ written' = Append(written, [path |-> FinalPath(page.url),
                                                  html |-> PageHtml(page)])
                   /\ UNCHANGED <<buildError, buildPc, exitCode>>
    /\ UNCHANGED <<files, posts, sitePages, tags, sitemap, warned, pagVars,
                   tplName, templates, cache, rendered, cfgVars, restVars>>

BuildDone ==
    /\ buildPc = "generated"
    /\ Len(written) = Len(sitePages)
    /\ buildPc' = "done"
    /\ exitCode' = 0
    /\ UNCHANGED <<files, posts, sitePages, written, tags, sitemap, warned,
                   buildError, pagVars, tplVars, cfgVars, restVars>>

\* ---- buildSite of scripts/lib/siteBuilder.js ----
\* loadAllPosts: a file that cannot be processed is reported and left out
LoadAllPosts ==
    /\ buildPc = "init"
    /\ posts' = loadAllPosts(files)
    /\ warned' = {files[i].file : i \in {j \in 1..Len(files) : files[j].broken}}
    /\ buildPc' = "sbLoaded"
    /\ UNCHANGED <<files, sitePages, written, tags, sitemap, exitCode,
                   buildError, pagVars, tplVars, cfgVars, restVars>>

\* Promise.all of the six builders.  extractTags throws before buildTagPages
\* and buildSitemap reach their first await; the rejection ends the run with
\* process.exit(1) before any pending write of the other builders completes.
BuildSections ==
    /\ buildPc = "sbLoaded"
    /\ LET ix == extractTags(posts)
           home == paginateItems(posts, validateConfig(pageSize)).pages
       IN  IF ix.err # ""
           THEN /\ buildError' = ix.err
                /\ buildPc' = "sbFailed"
                /\ exitCode' = 1
                /\ UNCHANGED <<written, tags, sitemap>>
           ELSE /\ \E aboutExists \in BOOLEAN :
                      written' = HomePaths(home) \o PostPaths(posts)
                                 \o TagPaths(ix.tags)
                                 \o (IF aboutExists
                                     THEN <<[path |-> "about/index.html",
                                             html |-> "about"]>>
                                     ELSE <<>>)
                                 \o <<[path |-> "404.html", html |-> "404"]>>
                /\ tags' = ix.tags
                /\ sitemap' = buildSitemap(posts, ix.tags)
                /\ buildPc' = "sbDone"
                /\ exitCode' = 0
                /\ UNCHANGED buildError
    /\ UNCHANGED <<files, posts, sitePages, warned, pagVars, tplVars, cfgVars, restVars>>

\* ---- scripts/static-site-generator.js, generateStaticSite lines 753-758 ----
GeneratorLoad ==
    /\ buildPc = "init"
    /\ LET ps == generatorLoadAllPosts(files)
           ix == generatorExtractTags(ps)
       IN  /\ posts' = ps
           /\ tags' = ix.tags
           /\ buildError' = ix.err
           /\ buildPc' = IF ix.err = "" THEN "genLoaded" ELSE "genFailed"
           /\ exitCode' = IF ix.err = "" THEN exitCode ELSE 1
    /\ UNCHANGED <<files, sitePages, written, sitemap, warned, pagVars, tplVars, cfgVars, restVars>>

NextBuild ==
    \/ LoadPosts \/ GeneratePages \/ GenerateTagPages \/ GenerateSitemap
    \/ WritePage \/ BuildDone
    \/ LoadAllPosts \/ BuildSections
    \/ GeneratorLoad

SpecBuild == InitBuild /\ [][NextBuild]_vars

(***************************************************************************)
(* SpecPosts: loadAllPosts and the builders of scripts/lib/siteBuilder.js  *)
(* on files whose frontmatter has further keys.                            *)
(***************************************************************************)
ExtraFrontmatter ==
    {NoExtra, [title |-> "world"], [file |-> "world"], [url |-> "/posts/world/"]}
FrontmatterFiles ==
    [file : {"hello", "world"}, slug : {""}, date : Dates, tags : {<<>>},
     broken : {FALSE}, extra : ExtraFrontmatter]

InitPosts ==
    /\ files \in {fs \in SeqsUpTo(FrontmatterFiles, MaxFiles) : DistinctFiles(fs)}
    /\ pageSize = ConstructorPostsPerPage
    /\ posts = <<>> /\ sitePages = <<>> /\ written = <<>>
    /\ tags = <<>> /\ sitemap = <<>> /\ warned = {} /\ exitCode = NotExited
    /\ buildPc = "init" /\ buildError = ""
    /\ items = <<>> /\ pagResult = PagIdle
    /\ TplQuiet /\ CfgQuiet /\ RestQuiet

NextPosts == LoadAllPosts \/ BuildSections

SpecPosts == InitPosts /\ [][NextPosts]_vars

\* two content files normalize to the same slug
SlugOfFile(f) == IF f.slug # "" THEN f.slug ELSE slugify(f.file)
SlugCollision ==
    \E i, j \in 1..Len(files) : i # j /\ SlugOfFile(files[i]) = SlugOfFile(files[j])

\* C5: when two content files normalize to the same slug the build stops with
\* an OutputCollisionError before any output is written; no page silently
\* replaces the other.
C5_CollisionDetectedBeforeWrite ==
    (SlugCollision /\ buildPc \in {"generated", "done"}) =>
        /\ buildError = "OutputCollisionError"
        /\ written = <<>>

(***************************************************************************)
(* Properties of the content pipelines                                     *)
(***************************************************************************)
Range(s) == {s[i] : i \in 1..Len(s)}

\* which pipeline ran, by the position the build is in
EngineRun ==
    buildPc \in {"loaded", "paged", "tagged", "generated", "done", "failed",
                 "loadFailed"}
LoadRan == buildPc # "init"
IndexRan == buildPc \notin {"init", "sbLoaded"}
IndexThrew == buildPc \in {"loadFailed", "sbFailed", "genFailed"}
BuildEnded ==
    buildPc \in {"done", "failed", "loadFailed", "sbDone", "sbFailed", "genFailed"}
BuildSucceeded == buildPc \in {"done", "sbDone"}

AllReadable == \A i \in 1..Len(files) : ~files[i].broken
Readable == SelectSeq(files, LAMBDA f : ~f.broken)

\* byte order of the names and slugs of the model
NameRank(name) ==
    CASE name = "Hello" -> 1
      [] name = "hello" -> 2
      [] name = "world" -> 3

\* an entry of a tag bucket stands for the loaded post p: the engine keeps
\* summaries { slug, title, url }, the scripts keep the posts themselves
Listed(entry, p) == IF EngineRun THEN entry.slug = p.slug ELSE entry = p

\* C12: a document appears under a tag of the tag index if and only if that
\* tag is in the document's tags list, and every tag used by a document is a
\* key of the index.
C12_TagIndexMatchesTags ==
    (AllReadable /\ IndexRan) =>
        /\ ~IndexThrew
        /\ \A p \in Range(posts) : \A t \in Range(p.tags) : HasOwnTag(tags, t)
        /\ \A b \in Range(tags) : \A p \in Range(posts) :
              (\E e \in Range(b.posts) : Listed(e, p)) <=> (b.name \in Range(p.tags))

\* date and slug of the document a bucket entry stands for
EntryDate(e) ==
    IF EngineRun THEN (CHOOSE p \in Range(posts) : p.slug = e.slug).isoDate
    ELSE e.date
EntrySlug(e) == IF EngineRun THEN e.slug ELSE e.file

\* C13: the documents listed under a tag are ordered by date descending,
\* documents of the same date by slug ascending.
C13_TagBucketsOrdered ==
    (AllReadable /\ IndexRan /\ ~IndexThrew /\ (EngineRun => ~SlugCollision)) =>
        \A b \in Range(tags) : \A i, j \in 1..Len(b.posts) :
            i < j =>
                \/ EntryDate(b.posts[i]) > EntryDate(b.posts[j])
                \/ /\ EntryDate(b.posts[i]) = EntryDate(b.posts[j])
                   /\ NameRank(EntrySlug(b.posts[i])) < NameRank(EntrySlug(b.posts[j]))

TagsUsed == UNION {Range(p.tags) : p \in Range(posts)}
TagPagesWritten == {w \in Range(written) : StartsWith(w.path, "tags/")}

\* C14: tags are told apart byte for byte: tags that differ in any byte, such
\* as letter case, are distinct keys of the index and each has a tag page of
\* its own; the build writes exactly one tag page per tag.
C14_OneTagPagePerTag ==
    BuildSucceeded =>
        /\ {b.name : b \in Range(tags)} = TagsUsed
        /\ \A t \in TagsUsed : \E w \in TagPagesWritten : w.html = "tag " \o t
        /\ Cardinality({w.path : w \in TagPagesWritten}) = Cardinality(TagsUsed)

\* the content files by date descending, files of one date by name ascending
FilesInOrder ==
    CHOOSE s \in [1..Len(files) -> Range(files)] :
        \A i, j \in 1..Len(files) :
            i < j => \/ s[i].date > s[j].date
                     \/ s[i].date = s[j].date
                        /\ NameRank(s[i].file) < NameRank(s[j].file)

\* the documents of a sequence of files, as the pipeline that ran builds them
DocumentsOf(fs) ==
    IF EngineRun THEN LinkPosts([i \in 1..Len(fs) |-> PostOfFile(fs[i])])
    ELSE IF buildPc \in {"genLoaded", "genFailed"}
    THEN [i \in 1..Len(fs) |->
             [file |-> fs[i].file, date |-> fs[i].date, tags |-> fs[i].tags]]
    ELSE [i \in 1..Len(fs) |-> processPostFile(fs[i])]

LoadReturned == LoadRan /\ buildPc # "loadFailed"

\* C15: the loaded documents are sorted by date descending and documents of
\* equal date by file name ascending, whatever the order in which the files
\* were listed.
C15_LoadedSortedByDateThenName ==
    (AllReadable /\ LoadReturned) => posts = DocumentsOf(FilesInOrder)

\* C16: a content file that cannot be read or parsed is skipped with a
\* warning; the load does not abort and every other file is loaded.
C16_BrokenFileIsSkipped ==
    (LoadRan /\ ~AllReadable) =>
        /\ buildPc # "loadFailed"
        /\ Len(posts) = Len(Readable)
        /\ \A f \in Range(Readable) : \E p \in Range(posts) : p.tags = f.tags
        /\ \A f \in Range(files) : f.broken => f.file \in warned

EndsWith(s, suffix) ==
    Len(s) >= Len(suffix) /\ SubSeq(s, Len(s) - Len(suffix) + 1, Len(s)) = suffix

\* the urls under which a written html file is served
ServedAt(path) ==
    {"/" \o path}
    \cup (IF EndsWith(path, ".html")
          THEN {"/" \o SubSeq(path, 1, Len(path) - 5)} ELSE {})
    \cup (IF EndsWith(path, "index.html")
          THEN {"/" \o SubSeq(path, 1, Len(path) - 10)} ELSE {})

\* C17: sitemap.xml lists every html page the build has written.
C17_SitemapListsEveryPage ==
    BuildSucceeded =>
        \A w \in Range(written) :
            \E u \in Range(sitemap) : u.loc \in ServedAt(w.path)

\* two pages of the engine's build are written to one output path
OutputCollision ==
    /\ EngineRun
    /\ \/ SlugCollision
       \/ \E f, g \in Range(files) : \E s \in Range(f.tags) : \E t \in Range(g.tags) :
             s # t /\ slugify(s) = slugify(t)

\* C18: the build exits with a non-zero code on an unrecoverable error (an
\* output path collision among them) and with zero on success.
C18_ExitCodeTellsFailure ==
    BuildEnded => ((exitCode = 0) <=> (buildError = "" /\ ~OutputCollision))

(***************************************************************************)
(* SpecTemplate: src/engine/content.js TemplateEngine.                     *)
(*                                                                         *)
(* A template is the sequence of its lexical pieces (runs of plain text    *)
(* and directives); the engine's regular expressions only ever cut a       *)
(* template at directive boundaries.  JavaScript values of the data        *)
(* context are records [t, s, n, f, e].                                    *)
(***************************************************************************)
StackLimit == 6       \* nested calls the JavaScript call stack holds
MaxPathLen == 3       \* longest dot-path in a directive

NoFields == [key \in {} |-> 0]
Undef == [t |-> "undef", s |-> "", n |-> 0, f |-> NoFields, e |-> <<>>]
NullV == [t |-> "null", s |-> "", n |-> 0, f |-> NoFields, e |-> <<>>]
Str(s) == [t |-> "str", s |-> s, n |-> 0, f |-> NoFields, e |-> <<>>]
NumV(n) == [t |-> "num", s |-> "", n |-> n, f |-> NoFields, e |-> <<>>]
Obj(f) == [t |-> "obj", s |-> "", n |-> 0, f |-> f, e |-> <<>>]
Arr(e) == [t |-> "arr", s |-> "", n |-> 0, f |-> NoFields, e |-> e]
\* what a JavaScript throw leaves instead of a value
Thrown == [t |-> "throw", s |-> "", n |-> 0, f |-> NoFields, e |-> <<>>]

\* ToBoolean
Truthy(v) ==
    CASE v.t = "str" -> v.s # ""
      [] v.t = "num" -> v.n # 0
      [] v.t \in {"obj", "arr"} -> TRUE
      [] OTHER -> FALSE

\* v[prop] for a value that is neither undefined nor null
GetProp(v, prop) ==
    CASE v.t = "obj" -> IF prop \in DOMAIN v.f THEN v.f[prop] ELSE Undef
      [] v.t = "str" -> IF prop = "length" THEN NumV(Len(v.s)) ELSE Undef
      [] v.t = "arr" -> IF prop = "length" THEN NumV(Len(v.e)) ELSE Undef
      [] OTHER -> Undef

\* String(v) for a value that is neither undefined nor null
RECURSIVE JsString(_)
RECURSIVE JoinElements(_)
JoinElements(e) ==
    IF e = <<>> THEN ""
    ELSE (IF Head(e).t \in {"undef", "null"} THEN "" ELSE JsString(Head(e)))
         \o (IF Len(e) > 1 THEN "," \o JoinElements(Tail(e)) ELSE "")

JsString(v) ==
    CASE v.t = "str" -> v.s
      [] v.t = "num" -> ToString(v.n)
      [] v.t = "obj" -> "[object Object]"
      [] v.t = "arr" -> JoinElements(v.e)
      [] OTHER -> v.t

\* { ...data, [key]: value }
WithKey(d, key, value) ==
    Obj([k \in DOMAIN d.f \cup {key} |-> IF k = key THEN value ELSE d.f[k]])

(***************************************************************************)
(* Pieces of a template                                                    *)
(***************************************************************************)
Piece(k, s, p, op, q) == [k |-> k, s |-> s, p |-> p, op |-> op, q |-> q]
Text(s) == Piece("text", s, <<>>, "", <<>>)            \* plain text
Var(p) == Piece("var", "", p, "", <<>>)                \* {{ a.b.c }}
If(p) == Piece("if", "", p, "", <<>>)                  \* {% if a.b %}
IfOp(p, op, q) == Piece("if", "", p, op, q)            \* {% if a and b.c %}
Else == Piece("else", "", <<>>, "", <<>>)              \* {% else %}
EndIf == Piece("endif", "", <<>>, "", <<>>)            \* {% endif %}
For(x, xs) == Piece("for", x, <<xs>>, "", <<>>)        \* {% for x in xs %}
EndFor == Piece("endfor", "", <<>>, "", <<>>)          \* {% endfor %}
Extends(name) == Piece("extends", name, <<>>, "", <<>>) \* {% extends "name" %}
Block(name) == Piece("block", name, <<>>, "", <<>>)    \* {% block name %}
EndBlock == Piece("endblock", "", <<>>, "", <<>>)      \* {% endblock %}
Include(name) == Piece("include", name, <<>>, "", <<>>) \* {% include "name" %}

RECURSIVE PathText(_)
PathText(p) ==
    IF p = <<>> THEN ""
    ELSE Head(p) \o (IF Len(p) > 1 THEN "." \o PathText(Tail(p)) ELSE "")

\* the source text of a piece
PieceText(t) ==
    CASE t.k = "text" -> t.s
      [] t.k = "var" -> "{{ " \o PathText(t.p) \o " }}"
      [] t.k = "if" -> "{% if " \o PathText(t.p)
                        \o (IF t.op = "" THEN "" ELSE " " \o t.op \o " " \o PathText(t.q))
                        \o " %}"
      [] t.k = "for" -> "{% for " \o t.s \o " in " \o PathText(t.p) \o " %}"
      [] t.k \in {"extends", "include"} -> "{% " \o t.k \o " \"" \o t.s \o "\" %}"
      [] t.k = "block" -> "{% block " \o t.s \o " %}"
      [] OTHER -> "{% " \o t.k \o " %}"

RECURSIVE TemplateText(_)
TemplateText(tpl) ==
    IF tpl = <<>> THEN "" ELSE PieceText(Head(tpl)) \o TemplateText(Tail(tpl))

\* index of the first piece of kind k at or after position from, 0 if none
FirstOf(tpl, ks, from) ==
    IF \E i \in from..Len(tpl) : tpl[i].k \in ks
    THEN CHOOSE i \in from..Len(tpl) :
            /\ tpl[i].k \in ks
            /\ \A j \in from..(i - 1) : tpl[j].k \notin ks
    ELSE 0

\* what a step of the engine hands back: the error thrown ("" when none),
\* the resulting template and the template cache as the step left it
Ok(out, c) == [err |-> "", out |-> out, cache |-> c]
Fail(err, c) == [err |-> err, out |-> <<>>, cache |-> c]
LoadError == "Error: Failed to load template"
RangeError == "RangeError: Maximum call stack size exceeded"

(***************************************************************************)
(* TemplateEngine.loadTemplate                                             *)
(***************************************************************************)
CachePut(c, name, tpl) ==
    [k \in DOMAIN c \cup {name} |-> IF k = name THEN tpl ELSE c[k]]

loadTemplate(name, c) ==
    IF name \in DOMAIN c
    THEN [err |-> "", tpl |-> c[name], cache |-> c]
    ELSE IF name \in DOMAIN templates
         THEN [err |-> "", tpl |-> templates[name],
               cache |-> CachePut(c, name, templates[name])]
         ELSE [err |-> LoadError, tpl |-> <<>>, cache |-> c]

(***************************************************************************)
(* TemplateEngine.processExtends                                           *)
(***************************************************************************)
\* blocks[name] = content: a known name keeps its place in the key order
BlocksPut(blocks, name, content) ==
    IF \E i \in 1..Len(blocks) : blocks[i].name = name
    THEN [i \in 1..Len(blocks) |->
            IF blocks[i].name = name THEN [name |-> name, content |-> content]
            ELSE blocks[i]]
    ELSE Append(blocks, [name |-> name, content |-> content])

\* the while loop over blockRegex.exec(template), lines 487-493
RECURSIVE ExtractBlocks(_, _, _)
ExtractBlocks(tpl, from, blocks) ==
    LET i == FirstOf(tpl, {"block"}, from)
        j == IF i = 0 THEN 0 ELSE FirstOf(tpl, {"endblock"}, i + 1)
    IN  IF i = 0 \/ j = 0 THEN blocks
        ELSE ExtractBlocks(tpl, j + 1,
                BlocksPut(blocks, tpl[i].s, SubSeq(tpl, i + 1, j - 1)))

\* result.replace(/{% block NAME %}[\s\S]*?{% endblock %}/g, content)
RECURSIVE ReplaceBlock(_, _, _)
ReplaceBlock(tpl, name, content) ==
    IF tpl = <<>> THEN <<>>
    ELSE LET j == FirstOf(tpl, {"endblock"}, 2)
         IN  IF Head(tpl).k = "block" /\ Head(tpl).s = name /\ j # 0
             THEN content \o ReplaceBlock(SubSeq(tpl, j + 1, Len(tpl)), name, content)
             ELSE <<Head(tpl)>> \o ReplaceBlock(Tail(tpl), name, content)

\* faulty variant: the child's block is put behind the parent's placeholder, which stays
RECURSIVE ReplaceBlocks_keepPlaceholder(_, _)
ReplaceBlocks_keepPlaceholder(layout, blocks) ==
    IF blocks = <<>> THEN layout
    ELSE ReplaceBlocks_keepPlaceholder(layout \o Head(blocks).content, Tail(blocks))

\* lines 496-500: one replace per extracted block, in key order
RECURSIVE ReplaceBlocks(_, _)
ReplaceBlocks(layout, blocks) ==
    IF blocks = <<>> THEN layout
    ELSE ReplaceBlocks(ReplaceBlock(layout, Head(blocks).name, Head(blocks).content),
                       Tail(blocks))

RECURSIVE processExtends(_, _, _)
processExtends(tpl, c, d) ==
    IF d > StackLimit THEN Fail(RangeError, c)
    ELSE LET i == FirstOf(tpl, {"extends"}, 1)
         IN  IF i = 0 THEN Ok(tpl, c)
             ELSE LET l == loadTemplate(tpl[i].s, c)
                  IN  IF l.err # "" THEN Fail(l.err, l.cache)
                      ELSE processExtends(
                              ReplaceBlocks(l.tpl, ExtractBlocks(tpl, 1, <<>>)),
                              l.cache, d + 1)

(***************************************************************************)
(* TemplateEngine.processConditionals, evaluateCondition                   *)
(***************************************************************************)
\* a?.b?.c from the value of a on
RECURSIVE OptionalChain(_, _)
OptionalChain(v, rest) ==
    IF rest = <<>> THEN v
    ELSE IF v.t \in {"undef", "null"} THEN Undef
    ELSE OptionalChain(GetProp(v, Head(rest)), Tail(rest))

\* an identifier, or a property chain after
\* transformPropertyAccessToOptionalChaining, evaluated in the generated
\* function whose parameters are the keys of data: an identifier that is no
\* key of data is a ReferenceError
EvalChain(p, dat) ==
    IF p[1] \notin DOMAIN dat.f THEN Thrown
    ELSE OptionalChain(dat.f[p[1]], Tail(p))

\* Boolean(<condition>) inside the try of the generated function
ConditionValue(t, dat) ==
    LET a == EvalChain(t.p, dat)
        b == EvalChain(t.q, dat)
    IN  CASE t.op = "" -> a
          [] t.op = "and" -> IF a.t = "throw" \/ ~Truthy(a) THEN a ELSE b
          [] t.op = "or" -> IF a.t = "throw" \/ Truthy(a) THEN a ELSE b

\* faulty variant: a condition that throws counts as true
evaluateCondition_errorIsTrue(t, dat) ==
    LET v == ConditionValue(t, dat)
    IN  IF v.t = "throw" THEN TRUE ELSE Truthy(v)

evaluateCondition(t, dat) ==
    LET v == ConditionValue(t, dat)
    IN  IF v.t = "throw" THEN FALSE ELSE Truthy(v)

\* the callback of processConditionals, lines 532-551
ConditionHolds(t, dat) ==
    IF t.op = "" /\ Len(t.p) = 1
    THEN Truthy(GetProp(dat, t.p[1]))
    ELSE evaluateCondition(t, dat)

\* where /{% if (.+?) %}([\s\S]*?)(?:{% else %}([\s\S]*?))?{% endif %}/ ends
\* when it starts at the if piece tpl[1]: the first else that has an endif
\* behind it, or the first endif, whichever comes first
IfMatch(tpl) ==
    LET cand == {j \in 2..Len(tpl) :
                    \/ tpl[j].k = "endif"
                    \/ tpl[j].k = "else" /\ FirstOf(tpl, {"endif"}, j + 1) # 0}
        j == CHOOSE x \in cand : \A y \in cand : x <= y
    IN  IF cand = {} THEN [found |-> FALSE, ifContent |-> <<>>,
                           elseContent |-> <<>>, endAt |-> 0]
        ELSE IF tpl[j].k = "endif"
             THEN [found |-> TRUE, ifContent |-> SubSeq(tpl, 2, j - 1),
                   elseContent |-> <<>>, endAt |-> j]
             ELSE [found |-> TRUE, ifContent |-> SubSeq(tpl, 2, j - 1),
                   elseContent |-> SubSeq(tpl, j + 1, FirstOf(tpl, {"endif"}, j + 1) - 1),
                   endAt |-> FirstOf(tpl, {"endif"}, j + 1)]

RECURSIVE processConditionals(_, _)
processConditionals(tpl, dat) ==
    IF tpl = <<>> THEN <<>>
    ELSE LET m == IfMatch(tpl)
         IN  IF Head(tpl).k = "if" /\ m.found
             THEN (IF ConditionHolds(Head(tpl), dat) THEN m.ifContent
                   ELSE m.elseContent)
                  \o processConditionals(SubSeq(tpl, m.endAt + 1, Len(tpl)), dat)
             ELSE <<Head(tpl)>> \o processConditionals(Tail(tpl), dat)

(***************************************************************************)
(* TemplateEngine.processVariables                                         *)
(***************************************************************************)
\* value.split('.').reduce((obj, prop) => ..., data), lines 658-661
RECURSIVE ReducePath(_, _)
ReducePath(obj, p) ==
    IF p = <<>> THEN obj
    ELSE ReducePath(IF obj.t \in {"undef", "null"} THEN Str("")
                    ELSE GetProp(obj, Head(p)),
                    Tail(p))

\* the callback of processVariables for a directive without filters
VariableText(p, dat) ==
    LET value == ReducePath(dat, p)
    IN  IF value.t \in {"undef", "null"} THEN "" ELSE JsString(value)

processVariables(tpl, dat) ==
    [i \in 1..Len(tpl) |->
        IF tpl[i].k = "var" THEN Text(VariableText(tpl[i].p, dat)) ELSE tpl[i]]

(***************************************************************************)
(* TemplateEngine.renderString, processIncludes, processLoops              *)
(***************************************************************************)
RECURSIVE renderString(_, _, _, _)
RECURSIVE processIncludes(_, _, _, _)
RECURSIVE processLoops(_, _, _, _)
RECURSIVE RenderItems(_, _, _, _, _, _)

processIncludes(tpl, dat, c, d) ==
    IF tpl = <<>> THEN Ok(<<>>, c)
    ELSE IF Head(tpl).k = "include"
    THEN LET l == loadTemplate(Head(tpl).s, c)
         IN  IF l.err # "" THEN Fail(l.err, l.cache)
             ELSE LET r == renderString(l.tpl, dat, l.cache, d)
                  IN  IF r.err # "" THEN r
                      ELSE LET rest == processIncludes(Tail(tpl), dat, r.cache, d)
                           IN  IF rest.err # "" THEN rest
                               ELSE Ok(r.out \o rest.out, rest.cache)
    ELSE LET rest == processIncludes(Tail(tpl), dat, c, d)
         IN  IF rest.err # "" THEN rest
             ELSE Ok(<<Head(tpl)>> \o rest.out, rest.cache)

\* items.map(item => this.renderString(content, { ...data, [itemVar]: item })).join('')
RenderItems(its, itemVar, content, dat, c, d) ==
    IF its = <<>> THEN Ok(<<>>, c)
    ELSE LET r == renderString(content, WithKey(dat, itemVar, Head(its)), c, d)
         IN  IF r.err # "" THEN r
             ELSE LET rest == RenderItems(Tail(its), itemVar, content, dat, r.cache, d)
                  IN  IF rest.err # "" THEN rest
                      ELSE Ok(r.out \o rest.out, rest.cache)

processLoops(tpl, dat, c, d) ==
    IF tpl = <<>> THEN Ok(<<>>, c)
    ELSE LET endAt == FirstOf(tpl, {"endfor"}, 2)
         IN  IF Head(tpl).k = "for" /\ Len(Head(tpl).p) = 1 /\ endAt # 0
             THEN LET its == GetProp(dat, Head(tpl).p[1])
                      body == IF its.t # "arr" THEN Ok(<<>>, c)
                              ELSE RenderItems(its.e, Head(tpl).s,
                                               SubSeq(tpl, 2, endAt - 1), dat, c, d)
                  IN  IF body.err # "" THEN body
                      ELSE LET rest == processLoops(SubSeq(tpl, endAt + 1, Len(tpl)),
                                                    dat, body.cache, d)
                           IN  IF rest.err # "" THEN rest
                               ELSE Ok(body.out \o rest.out, rest.cache)
             ELSE LET rest == processLoops(Tail(tpl), dat, c, d)
                  IN  IF rest.err # "" THEN rest
                      ELSE Ok(<<Head(tpl)>> \o rest.out, rest.cache)

\* d counts the nested calls; a call the stack cannot hold is a RangeError
renderString(tpl, dat, c, d) ==
    IF d > StackLimit THEN Fail(RangeError, c)
    ELSE LET e == processExtends(tpl, c, d + 1)
         IN  IF e.err # "" THEN e
             ELSE LET i == processIncludes(e.out, dat, e.cache, d + 1)
                  IN  IF i.err # "" THEN i
                      ELSE LET l == processLoops(processConditionals(i.out, dat),
                                                 dat, i.cache, d + 1)
                           IN  IF l.err # "" THEN l
                               ELSE Ok(processVariables(l.out, dat), l.cache)

\* TemplateEngine.render
render(templatePath, dat, c) ==
    LET l == loadTemplate(templatePath, c)
    IN  IF l.err # "" THEN Fail(l.err, l.cache)
        ELSE renderString(l.tpl, dat, l.cache, 1)

(***************************************************************************)
(* generateStaticSite: postProcessHtml, applied to what render returned    *)
(* before the page is written.                                             *)
(***************************************************************************)
\* html.replace(/<open>.*?<close>/gs, ''): every span from an opening piece
\* to the first closing piece behind it is cut out, left to right
RECURSIVE StripSpans(_, _, _)
StripSpans(tpl, opens, closes) ==
    LET i == FirstOf(tpl, opens, 1)
        j == IF i = 0 THEN 0 ELSE FirstOf(tpl, closes, i + 1)
    IN  IF j = 0 THEN tpl
        ELSE SubSeq(tpl, 1, i - 1)
             \o StripSpans(SubSeq(tpl, j + 1, Len(tpl)), opens, closes)

\* processed.replace(/{{.*?}}/g, '')
StripVariables(tpl) == SelectSeq(tpl, LAMBDA t : t.k # "var")

postProcessHtml(html) ==
    StripVariables(
        StripSpans(StripSpans(StripSpans(html, {"for"}, {"endfor"}),
                              {"if"}, {"endif"}),
                   {"else"}, {"endif"}))

(***************************************************************************)
(* SpecTemplate: a templates directory, a data context and the name of     *)
(* the template to render are chosen; render and clearCache run.           *)
(***************************************************************************)
MaxTplLen == 3        \* longest template built freely from SmallPieces

Keys == {"post", "title", "length", "x"}
Paths == UNION {[1..n -> Keys] : n \in 1..MaxPathLen}
OperandPaths == UNION {[1..n -> {"post", "title"}] : n \in 1..2}

\* data contexts
Contexts ==
    { Obj(NoFields),
      Obj([title |-> Str("Hi"), x |-> Str("outer"),
           post |-> Obj([title |-> Str("P")]),
           items |-> Arr(<<Str("a"), Str("")>>)]),
      Obj([title |-> Str(""), post |-> NullV, items |-> Arr(<<>>)]),
      Obj([x |-> NumV(0), post |-> Obj([title |-> Undef]),
           items |-> Arr(<<Obj([title |-> Str("A")]), Obj([title |-> Str("")]),
                           Obj(NoFields)>>)]),
      Obj([items |-> Str("ab"),
           post |-> Obj([title |-> Str("P"),
                         x |-> Obj([title |-> Str("deep")])])]) }

\* the page templates tried
VarTemplates == {<<Var(p)>> : p \in Paths}
Conditions ==
    {If(p) : p \in Paths}
    \cup {IfOp(p, op, q) : p \in OperandPaths, op \in {"and", "or"}, q \in OperandPaths}
IfTemplates ==
    {<<c, Text("T"), Else, Text("F"), EndIf>> : c \in Conditions}
    \cup {<<c, Text("T"), EndIf>> : c \in Conditions}
LoopBodies ==
    { <<Text("-")>>,
      <<Var(<<"x">>)>>,
      <<Var(<<"x", "title">>), Text(";")>>,
      <<If(<<"x">>), Text("T"), Else, Text("F"), EndIf>>,
      <<If(<<"x", "title">>), Var(<<"x", "title">>), Else, Text("F"), EndIf>>,
      <<If(<<"title">>), Text("T"), EndIf>>,
      <<For("post", "items"), Var(<<"post">>), EndFor>> }
ForTemplates == {<<For("x", "items")>> \o b \o <<EndFor>> : b \in LoopBodies}
SmallPieces ==
    { Text("a"), Var(<<"title">>), If(<<"title">>), Else, EndIf,
      For("x", "items"), EndFor, Include("partial") }
FreeTemplates == SeqsUpTo(SmallPieces, MaxTplLen)
PageTemplates == VarTemplates \cup IfTemplates \cup ForTemplates \cup FreeTemplates

\* the files of the templates directory; "page" is the template under test
TemplatesDir(page) ==
    [name \in {"page", "base", "child", "grandchild", "selfext", "cycA", "cycB",
               "orphan", "partial"} |->
        CASE name = "page" -> page
          [] name = "base" -> <<Text("<html>"), Block("content"), EndBlock, Text("</html>")>>
          [] name = "child" -> <<Extends("base"), Block("content"), Text("Hi"), EndBlock>>
          [] name = "grandchild" -> <<Extends("child"), Block("content"), Text("Yo"), EndBlock>>
          [] name = "selfext" -> <<Extends("selfext"), Block("content"), Text("X"), EndBlock>>
          [] name = "cycA" -> <<Extends("cycB"), Block("content"), Text("A"), EndBlock>>
          [] name = "cycB" -> <<Extends("cycA"), Block("content"), Text("B"), EndBlock>>
          [] name = "orphan" -> <<Extends("nothere"), Block("content"), Text("O"), EndBlock>>
          [] name = "partial" -> <<Text("p:"), Var(<<"title">>)>>]

FileTemplates == {"child", "grandchild", "selfext", "cycA", "orphan", "nothere"}

InitTemplate ==
    /\ \/ tplName = "page" /\ \E page \in PageTemplates : templates = TemplatesDir(page)
       \/ tplName \in FileTemplates /\ templates = TemplatesDir(<<Text("a")>>)
    /\ data \in Contexts
    /\ cache = <<>>
    /\ rendered = RenderIdle
    /\ PagQuiet /\ BuildQuiet /\ CfgQuiet /\ RestQuiet

\* generateStaticSite lines 184-194: templateEngine.render(page.template,
\* pageData), then postProcessHtml; html is what is written for the page,
\* nothing when render threw
Render ==
    /\ LET r == render(tplName, data, cache)
       IN  /\ rendered' = [status |-> "done", err |-> r.err,
                           out |-> TemplateText(r.out),
                           html |-> IF r.err # "" THEN ""
                                    ELSE TemplateText(postProcessHtml(r.out))]
           /\ cache' = r.cache
    /\ UNCHANGED <<tplName, templates, data, pagVars, buildVars, cfgVars, restVars>>

\* TemplateEngine.clearCache
ClearCache ==
    /\ DOMAIN cache # {}
    /\ cache' = <<>>
    /\ UNCHANGED <<tplName, templates, data, rendered, pagVars, buildVars, cfgVars, restVars>>

NextTemplate == Render \/ ClearCache

SpecTemplate == InitTemplate /\ [][NextTemplate]_vars

(***************************************************************************)
(* Properties of the template engine                                       *)
(***************************************************************************)
Page == templates["page"]
RenderedPage == rendered.status = "done" /\ tplName = "page"

\* the value a dot-path resolves to in a context; undefined as soon as a
\* segment is missing
RECURSIVE Resolve(_, _)
Resolve(v, p) ==
    IF p = <<>> THEN v
    ELSE IF v.t \in {"undef", "null"} THEN Undef
    ELSE Resolve(GetProp(v, Head(p)), Tail(p))

Unresolved(p) == Resolve(data, p) = Undef

\* the first piece of the template its extends chain leads back to
RECURSIVE ExtendsCycle(_, _)
ExtendsCycle(name, seen) ==
    IF name \in seen THEN TRUE
    ELSE IF name \notin DOMAIN templates THEN FALSE
    ELSE LET i == FirstOf(templates[name], {"extends"}, 1)
         IN  IF i = 0 THEN FALSE
             ELSE ExtendsCycle(templates[name][i].s, seen \cup {name})

\* C6: rendering a template that extends itself, or whose extends chain forms
\* a cycle, fails with an error the engine raises for the template; the
\* recursion is not left to run until the call stack is exhausted.
C6_ExtendsCycleIsTemplateError ==
    (rendered.status = "done" /\ ExtendsCycle(tplName, {})) =>
        /\ rendered.err # ""
        /\ rendered.err # RangeError

\* the conditions whose referenced paths leave them without a value
ConditionUnresolved(c) ==
    CASE c.op = "" -> Unresolved(c.p)
      [] c.op = "and" -> Unresolved(c.p) \/ Unresolved(c.q)
      [] c.op = "or" -> Unresolved(c.p) /\ Unresolved(c.q)

IsIfElse(tpl) ==
    /\ Len(tpl) = 5 /\ tpl[1].k = "if"
    /\ tpl[2] = Text("T") /\ tpl[3] = Else /\ tpl[4] = Text("F") /\ tpl[5] = EndIf
IsIfOnly(tpl) ==
    /\ Len(tpl) = 3 /\ tpl[1].k = "if" /\ tpl[2] = Text("T") /\ tpl[3] = EndIf

IsForTemplate(tpl) ==
    /\ Len(tpl) >= 3 /\ tpl[1] = For("x", "items") /\ tpl[Len(tpl)] = EndFor

\* the loop body rendered once per item against the nested context
RECURSIVE BodyPerItem(_, _)
BodyPerItem(body, its) ==
    IF its = <<>> THEN ""
    ELSE TemplateText(renderString(body, WithKey(data, "x", Head(its)), cache, 1).out)
         \o BodyPerItem(body, Tail(its))

\* C8: a for-loop renders its body once per item, in order, against a nested
\* context in which the loop variable is the current item; a conditional or
\* loop inside the body sees the current item, not the outer context.
C8_LoopBodySeesItem ==
    (RenderedPage /\ IsForTemplate(Page) /\ GetProp(data, "items").t = "arr") =>
        /\ rendered.err = ""
        /\ rendered.out = BodyPerItem(SubSeq(Page, 2, Len(Page) - 1),
                                      GetProp(data, "items").e)

\* C9: the child {% extends "base" %}{% block content %}Hi{% endblock %}
\* against the base <html>{% block content %}{% endblock %}</html> renders to
\* exactly <html>Hi</html>.
C9_ExtendsScenario ==
    (rendered.status = "done" /\ tplName = "child") =>
        /\ rendered.err = ""
        /\ rendered.out = "<html>Hi</html>"

C9_Witness ==
    /\ rendered.status = "done" /\ tplName = "child"
    /\ TemplateText(templates["child"])
         = "{% extends \"base\" %}{% block content %}Hi{% endblock %}"
    /\ TemplateText(templates["base"])
         = "<html>{% block content %}{% endblock %}</html>"
    /\ rendered.out = "<html>Hi</html>"

\* C10: {{ path }} yields the string form of the value the path resolves to,
\* and the empty string whenever a segment of the path is missing, whatever
\* the length of the path.
C10_VariableIsResolvedValue ==
    (RenderedPage /\ Len(Page) = 1 /\ Page[1].k = "var") =>
        /\ rendered.err = ""
        /\ rendered.out = (IF Resolve(data, Page[1].p).t \in {"undef", "null"} THEN ""
                           ELSE JsString(Resolve(data, Page[1].p)))

\* a text holds template directive syntax: "{{" or "{%"
HasDirective(text) ==
    \E i \in 1..(Len(text) - 1) : SubSeq(text, i, i + 1) \in {"{{", "{%"}

\* C11: after all passes the html written for a page holds no template
\* directive syntax: leftover {{ ... }} and {% ... %} sequences are stripped.
C11_NoDirectiveInShippedHtml ==
    (rendered.status = "done" /\ rendered.err = "") => ~HasDirective(rendered.html)

(***************************************************************************)
(* SpecConfig: scripts/lib/configManager.js loadConfig, then               *)
(* siteBuilder.buildAboutPage with the configuration it left.              *)
(*                                                                         *)
(* A JavaScript object is the function from its own keys to their values;  *)
(* null is JsNull.                                                         *)
(***************************************************************************)
\* the values a config.json of the model gives to the fields it has
UserSite == [title |-> "My blog", description |-> "Notes", language |-> "en",
             url |-> "https://example.org"]
UserPaths == [contentDir |-> "my-content", outputDir |-> "out"]

\* what config.json can say for a section; Absent: the section is not there
Absent == [absent |-> TRUE]
IsAbsent(v) == "absent" \in DOMAIN v
SiteSections ==
    {Pick(UserSite, K) : K \in SUBSET DOMAIN UserSite}
    \cup {[title |-> ""], JsNull, Absent}
ContentSections ==
    {NoFields, [postsPerPage |-> 0], [postsPerPage |-> 3],
     JsNull, Absent}
PathsSections ==
    {Pick(UserPaths, K) : K \in SUBSET DOMAIN UserPaths} \cup {JsNull, Absent}

ConfigObject(s, c, p) ==
    LET all == [site |-> s, content |-> c, paths |-> p]
    IN  Pick(all, {k \in DOMAIN all : ~IsAbsent(all[k])})

\* the states of the file config.json
FileMissing == [missing |-> TRUE]
FileNotJson == [notJson |-> TRUE]
ConfigFiles ==
    {FileMissing, FileNotJson}
    \cup {ConfigObject(s, c, p) :
             s \in SiteSections, c \in ContentSections, p \in PathsSections}
IsParsed(file) == DOMAIN file \cap {"missing", "notJson", "null"} = {}

\* faulty variant: a section of config.json replaces the default section
mergeConfigs_replaceSection(defaults, loadedConfig) ==
    [section \in DOMAIN defaults \cup DOMAIN loadedConfig |->
        IF section \in DOMAIN loadedConfig THEN loadedConfig[section]
        ELSE defaults[section]]

\* mergeConfigs: the sections of config.json are spread over the default
\* sections, one level deep; a section that is no object is taken as it is
mergeConfigs(defaults, loadedConfig) ==
    [section \in DOMAIN defaults \cup DOMAIN loadedConfig |->
        IF section \notin DOMAIN loadedConfig THEN defaults[section]
        ELSE IF IsObject(loadedConfig[section])
             THEN Spread(IF section \in DOMAIN defaults THEN defaults[section]
                         ELSE NoFields,
                         loadedConfig[section])
             ELSE loadedConfig[section]]

\* lines 45-46: the derived directories, path.join(contentDir, ...)
WithDerivedPaths(paths) ==
    WithField(WithField(paths, "postsDir", paths.contentDir \o "/posts"),
              "aboutDir", paths.contentDir \o "/about")

\* validateConfig on objects that have a content and a site section
validateSections(cfg) ==
    LET content == IF "postsPerPage" \notin DOMAIN cfg.content
                      \/ cfg.content.postsPerPage = 0
                   THEN WithField(cfg.content, "postsPerPage", DefaultPostsPerPage)
                   ELSE cfg.content
        site == IF "title" \notin DOMAIN cfg.site \/ cfg.site.title = ""
                THEN WithField(cfg.site, "title", DEFAULT_CONFIG.site.title)
                ELSE cfg.site
    IN  [cfg EXCEPT !.content = content, !.site = site]

\* loadConfig for config === null.  result.paths is DEFAULT_CONFIG.paths
\* itself unless config.json has a paths section, so lines 45-46 then write
\* to DEFAULT_CONFIG too.  Whatever throws inside the try (reading the file,
\* JSON.parse, a property of null, path.join of undefined) is caught and
\* config becomes DEFAULT_CONFIG as it is at that moment.
configManagerLoadConfig(file, defaults) ==
    IF ~IsParsed(file)
    THEN [config |-> defaults, defaults |-> defaults, caught |-> TRUE]
    ELSE LET merged == mergeConfigs(defaults, file)
         IN  IF ~IsObject(merged.paths) \/ "contentDir" \notin DOMAIN merged.paths
             THEN [config |-> defaults, defaults |-> defaults, caught |-> TRUE]
             ELSE LET derived == [merged EXCEPT !.paths = WithDerivedPaths(@)]
                      defaults2 == IF "paths" \in DOMAIN file THEN defaults
                                   ELSE [defaults EXCEPT !.paths = derived.paths]
                  IN  IF ~IsObject(derived.content) \/ ~IsObject(derived.site)
                      THEN [config |-> defaults2, defaults |-> defaults2,
                            caught |-> TRUE]
                      ELSE [config |-> validateSections(derived),
                            defaults |-> defaults2, caught |-> FALSE]

InitConfig ==
    /\ configFile \in ConfigFiles
    /\ config = JsNull
    /\ defaultConfig = DEFAULT_CONFIG
    /\ files = <<>> /\ posts = <<>> /\ sitePages = <<>> /\ written = <<>>
    /\ tags = <<>> /\ sitemap = <<>> /\ warned = {} /\ exitCode = NotExited
    /\ buildPc = "init" /\ buildError = ""
    /\ PagQuiet /\ TplQuiet /\ RestQuiet

\* loadConfig(); a later call finds config !== null and returns it
LoadConfig ==
    /\ ~IsObject(config)
    /\ LET r == configManagerLoadConfig(configFile, defaultConfig)
       IN  /\ config' = r.config
           /\ defaultConfig' = r.defaults
           /\ warned' = IF r.caught THEN {"config.json"} ELSE warned
    /\ UNCHANGED <<configFile, files, posts, sitePages, written, buildPc,
                   buildError, tags, sitemap, exitCode, pagVars, tplVars, restVars>>

\* buildAboutPage: path.join(config.paths.aboutDir, 'index.md') throws a
\* TypeError for an undefined directory; the catch prints and rethrows it
BuildAboutPage ==
    /\ IsObject(config)
    /\ buildPc = "init"
    /\ IF "aboutDir" \notin DOMAIN config.paths
       THEN /\ buildError' = TypeError
            /\ buildPc' = "aboutFailed"
            /\ written' = written
       ELSE /\ \E aboutExists \in BOOLEAN :
                 written' = IF aboutExists
                            THEN <<[path |-> config.paths.outputDir
                                             \o "/about/index.html",
                                    html |-> IF "description" \in DOMAIN config.site
                                             THEN config.site.description
                                             ELSE ""]>>
                            ELSE written
            /\ buildPc' = "aboutDone"
            /\ buildError' = buildError
    /\ UNCHANGED <<files, posts, sitePages, tags, sitemap, warned, exitCode,
                   cfgVars, pagVars, tplVars, restVars>>

NextConfig == LoadConfig \/ BuildAboutPage

SpecConfig == InitConfig /\ [][NextConfig]_vars

\* config.json parsed and each of its sections is an object: fields may be
\* missing, nothing else is wrong with it
OnlyMissingFields ==
    IsParsed(configFile) /\ \A s \in DOMAIN configFile : IsObject(configFile[s])

\* the field is given in config.json with a value validateConfig lets stand
Given(s, k) ==
    /\ s \in DOMAIN configFile
    /\ k \in DOMAIN configFile[s]
    /\ ~(k = "postsPerPage" /\ configFile[s][k] = 0)
    /\ ~(k = "title" /\ configFile[s][k] = "")

\* C19: a configuration with missing fields never crashes the build: every
\* field that has a default and is missing from config.json has its default
\* value in the loaded configuration, a given field keeps its value, and
\* buildAboutPage runs without an error.
C19_MissingFieldsGetDefaults ==
    (IsObject(config) /\ OnlyMissingFields) =>
        /\ buildError = ""
        /\ \A s \in DOMAIN DEFAULT_CONFIG : \A k \in DOMAIN DEFAULT_CONFIG[s] :
              /\ k \in DOMAIN config[s]
              /\ config[s][k] = IF Given(s, k) THEN configFile[s][k]
                                ELSE DEFAULT_CONFIG[s][k]

\* a section with a field missing was loaded and the about page was written
C19_Witness ==
    /\ OnlyMissingFields
    /\ "site" \in DOMAIN configFile /\ DOMAIN configFile.site = {"title"}
    /\ "content" \notin DOMAIN configFile
    /\ "paths" \in DOMAIN configFile /\ DOMAIN configFile.paths = {"outputDir"}
    /\ IsObject(config)
    /\ config.site.description = DEFAULT_CONFIG.site.description
    /\ buildPc = "aboutDone"
    /\ written = <<[path |-> "out/about/index.html", html |-> "Tech blog"]>>

(***************************************************************************)
(* SpecCache: builders that run concurrently (buildSite starts them        *)
(* together with Promise.all) and load templates through one cache.        *)
(* JavaScript runs a synchronous function to its end before any other      *)
(* callback is entered, and both loadTemplate functions are synchronous    *)
(* (fs.readFileSync), so a builder's call of loadTemplate is one step; the  *)
(* builders interleave between their calls.                                *)
(***************************************************************************)
MaxLoads == 2         \* loadTemplate calls a builder makes
Builders == {"buildHomePage", "buildPostPages"}
LoadedNames == {"page", "base", "nothere"}   \* "nothere" has no file

\* scripts/lib/templateEngine.js loadTemplate: an entry counts as cached when
\* it is truthy (not the empty string); a file that cannot be read gives ''
\* and is not cached
\* faulty variant: a second load of a cached template appends to its entry
scriptLoadTemplate_appendOnReload(name, c) ==
    IF name \in DOMAIN templates
    THEN [tpl |-> templates[name],
          cache |-> CachePut(c, name,
                             IF name \in DOMAIN c THEN c[name] \o templates[name]
                             ELSE templates[name])]
    ELSE [tpl |-> <<>>, cache |-> c]

scriptLoadTemplate(name, c) ==
    IF name \in DOMAIN c /\ c[name] # <<>>
    THEN [tpl |-> c[name], cache |-> c]
    ELSE IF name \in DOMAIN templates
         THEN [tpl |-> templates[name], cache |-> CachePut(c, name, templates[name])]
         ELSE [tpl |-> <<>>, cache |-> c]

InitCache ==
    /\ \E page \in {<<>>, <<Text("a")>>} : templates = TemplatesDir(page)
    /\ cache = <<>>
    /\ \E via \in {"engine", "script"} :
          renders \in [Builders -> [todo : SeqsUpTo(LoadedNames, MaxLoads),
                                    got : {<<>>}, err : {""}, via : {via}]]
    /\ tplName = "" /\ data = <<>> /\ rendered = RenderIdle
    /\ PagQuiet /\ BuildQuiet /\ CfgQuiet /\ ReadQuiet /\ SpaQuiet /\ FetchQuiet
    /\ FileQuiet

\* builder b calls loadTemplate of scripts/lib/templateEngine.js
ScriptLoad(b) ==
    /\ renders[b].via = "script"
    /\ renders[b].todo # <<>>
    /\ LET l == scriptLoadTemplate(Head(renders[b].todo), cache)
       IN  /\ cache' = l.cache
           /\ renders' = [renders EXCEPT ![b].todo = Tail(@),
                                         ![b].got = Append(@, l.tpl)]
    /\ UNCHANGED <<tplName, templates, data, rendered, pagVars, buildVars, cfgVars,
                   readVars, spaVars, fetchList, fileVars>>

\* builder b calls TemplateEngine.loadTemplate; the Error it throws for a
\* file that cannot be read ends the builder
EngineLoad(b) ==
    /\ renders[b].via = "engine"
    /\ renders[b].todo # <<>>
    /\ LET l == loadTemplate(Head(renders[b].todo), cache)
       IN  /\ cache' = l.cache
           /\ renders' = IF l.err # ""
                          THEN [renders EXCEPT ![b].todo = <<>>, ![b].err = l.err]
                          ELSE [renders EXCEPT ![b].todo = Tail(@),
                                               ![b].got = Append(@, l.tpl)]
    /\ UNCHANGED <<tplName, templates, data, rendered, pagVars, buildVars, cfgVars,
                   readVars, spaVars, fetchList, fileVars>>

NextCache == \E b \in Builders : ScriptLoad(b) \/ EngineLoad(b)

SpecCache == InitCache /\ [][NextCache]_vars

\* C20: whatever the interleaving of builders that load the same template
\* for the first time, every entry of the template cache holds exactly the
\* text of the template file it is keyed by.
C20_CacheEntriesAreSources ==
    (DOMAIN renders # {}) =>
        \A name \in DOMAIN cache :
            name \in DOMAIN templates /\ cache[name] = templates[name]

\* both builders started on the same uncached template, each has finished
\* its loads, and the entry is the source
C20_Witness ==
    /\ DOMAIN renders = Builders
    /\ \A b \in Builders :
          /\ renders[b].todo = <<>> /\ renders[b].err = ""
          /\ Len(renders[b].got) = 2
          /\ renders[b].got[1] = templates["base"]
          /\ renders[b].got[1] # <<>>
    /\ "base" \in DOMAIN cache /\ cache["base"] = templates["base"]

(***************************************************************************)
(* SpecReading: the reading time the loaders give a post.                  *)
(*                                                                         *)
(* A body is a sequence of pieces: Blank is a run of whitespace, Mark the   *)
(* heading marker "#", Words(n) is n words with one space between them.    *)
(* Pieces that follow each other without a Blank touch: the last word of   *)
(* one and the first of the next are one whitespace-separated token.       *)
(***************************************************************************)
MaxPieces == 3        \* longest body, in pieces
Blank == [k |-> "blank", n |-> 0]
Mark == [k |-> "mark", n |-> 1]
Words(n) == [k |-> "words", n |-> n]
BodyPieces == {Blank, Mark, Words(1), Words(199), Words(200), Words(400)}
ConfiguredRates == {100, 200}

\* text.trim().split(/\s+/).length: the tokens between runs of whitespace;
\* the empty string splits into one empty token
RECURSIVE InnerSpaces(_)
InnerSpaces(text) ==
    IF text = <<>> THEN 0 ELSE (Head(text).n - 1) * (IF Head(text).k = "words" THEN 1 ELSE 0)
                               + InnerSpaces(Tail(text))
TokenStarts(text) ==
    {i \in 1..Len(text) : text[i].k # "blank" /\ (i = 1 \/ text[i - 1].k = "blank")}
SplitLength(text) ==
    IF TokenStarts(text) = {} THEN 1
    ELSE Cardinality(TokenStarts(text)) + InnerSpaces(text)

\* scripts/lib/markdownProcessor.js calculateReadingTime
calculateReadingTime(text, rate) ==
    IF text = <<>> THEN 1
    ELSE Max(1, MathCeilDiv(SplitLength(text), rate).n)

\* ContentProcessor.loadPosts lines 150-151
engineReadingTime(text) == MathCeilDiv(SplitLength(text), 200).n

InitReading ==
    /\ postBody \in SeqsUpTo(BodyPieces, MaxPieces)
    /\ wordsPerMinute \in ConfiguredRates
    /\ readingTime = ReadIdle
    /\ PagQuiet /\ BuildQuiet /\ TplQuiet /\ CfgQuiet /\ RendersQuiet /\ SpaQuiet /\ FetchQuiet
    /\ FileQuiet

\* ContentProcessor.loadPosts for one file
LoadPostReadingTime ==
    /\ readingTime = ReadIdle
    /\ readingTime' = [impl |-> "loadPosts", minutes |-> engineReadingTime(postBody)]
    /\ UNCHANGED <<postBody, wordsPerMinute, pagVars, buildVars, tplVars, cfgVars,
                   renders, spaVars, fetchList, fileVars>>

\* siteBuilder.processPostFile: calculateReadingTime(markdownContent), the
\* rate is left to its default
ProcessPostReadingTime ==
    /\ readingTime = ReadIdle
    /\ readingTime' = [impl |-> "processPostFile",
                       minutes |-> calculateReadingTime(postBody, DefaultWordsPerMinute)]
    /\ UNCHANGED <<postBody, wordsPerMinute, pagVars, buildVars, tplVars, cfgVars,
                   renders, spaVars, fetchList, fileVars>>

NextReading == LoadPostReadingTime \/ ProcessPostReadingTime

SpecReading == InitReading /\ [][NextReading]_vars

\* the words of a body: the tokens that are left when the markup is taken out
WordCount(text) ==
    LET stripped == SelectSeq(text, LAMBDA piece : piece.k # "mark")
    IN  IF TokenStarts(stripped) = {} THEN 0 ELSE SplitLength(stripped)

\* C23: the reading time of a post is its word count divided by the
\* configured words per minute, rounded up, and 1 at least.
C23_ReadingTimeIsCeil ==
    readingTime # ReadIdle =>
        readingTime.minutes =
            Max(1, MathCeilDiv(WordCount(postBody), wordsPerMinute).n)

(***************************************************************************)
(* SpecRouter: the single-page application: the router of js/router.js and *)
(* handleRouteChange of the application module.                            *)
(*                                                                         *)
(* An event handler runs to its end before the next event is delivered,    *)
(* and a continuation behind the await of a promise that is already        *)
(* settled runs before the next event too.  So a call of handleRouteChange *)
(* whose route handler does not wait for the network is over within the    *)
(* step that made it; one whose route handler fetches content stays in     *)
(* handling until the fetch settles.                                       *)
(***************************************************************************)
MaxHistory == 3       \* longest session history
RoutePaths == {"/", "/posts/a", "/about", "/missing"}

\* the loop over routes: the name of the first route whose pattern matches
matchRoute(pathname) ==
    IF pathname = "/" \/ pathname = "" THEN "home"
    ELSE IF StartsWith(pathname, "/posts/") /\ Len(pathname) > 7 THEN "post"
    ELSE IF pathname = "/tags" THEN "tags"
    ELSE IF StartsWith(pathname, "/tags/") /\ Len(pathname) > 6 THEN "tag"
    ELSE IF pathname = "/about" THEN "about"
    ELSE Null

Location == IF historyIndex = 0 THEN "" ELSE history[historyIndex]

\* handleRouteChange up to the point where it waits for its route handler,
\* or to its end when it does not wait.  fetches tells whether the route
\* handler awaits a fetch (handlePostRoute for a post of state.posts,
\* handleAboutRoute).
\* faulty variant: the call does not look at state.isLoading
handleRouteChange_noGuard(pathname, st, hs, fetches) ==
    LET route == matchRoute(pathname)
        waits == route = "about" \/ (route = "post" /\ fetches)
    IN  [state |-> [currentRoute |-> pathname, isLoading |-> waits \/ hs # <<>>],
         handling |-> IF waits THEN Append(hs, pathname) ELSE hs,
         call |-> [path |-> pathname, whileLoading |-> st.isLoading,
                   ran |-> route # Null]]

handleRouteChange(pathname, st, hs, fetches) ==
    IF st.isLoading
    THEN [state |-> st, handling |-> hs,
          call |-> [path |-> pathname, whileLoading |-> TRUE, ran |-> FALSE]]
    ELSE LET route == matchRoute(pathname)
             waits == route = "about" \/ (route = "post" /\ fetches)
         IN  [state |-> [currentRoute |-> pathname, isLoading |-> waits],
              handling |-> IF waits THEN Append(hs, pathname) ELSE hs,
              call |-> [path |-> pathname, whileLoading |-> FALSE,
                        ran |-> route # Null]]

\* the application after initApp: initRouter has installed the handler and,
\* when sessionStorage holds a redirectPath, replaced the location by it and
\* called the handler
InitRouter ==
    /\ \E start \in RoutePaths, redirectPath \in RoutePaths \cup {Null}, fetches \in BOOLEAN :
          LET idle == [currentRoute |-> Null, isLoading |-> FALSE]
              r == handleRouteChange(redirectPath, idle, <<>>, fetches)
          IN  IF redirectPath = Null
              THEN /\ history = <<start>> /\ spaState = idle
                   /\ handling = <<>> /\ lastCall = NoCall
              ELSE /\ history = <<redirectPath>> /\ spaState = r.state
                   /\ handling = r.handling /\ lastCall = r.call
    /\ historyIndex = 1
    /\ PagQuiet /\ BuildQuiet /\ TplQuiet /\ CfgQuiet /\ RendersQuiet /\ ReadQuiet /\ FetchQuiet
    /\ FileQuiet

\* a click on an internal link: handleNavigation, navigateTo
NavigateTo ==
    /\ Len(history) < MaxHistory
    /\ \E pathname \in RoutePaths, fetches \in BOOLEAN :
          /\ Location # pathname
          /\ history' = Append(SubSeq(history, 1, historyIndex), pathname)
          /\ historyIndex' = historyIndex + 1
          /\ LET r == handleRouteChange(pathname, spaState, handling, fetches)
             IN  spaState' = r.state /\ handling' = r.handling /\ lastCall' = r.call
    /\ UNCHANGED <<pagVars, buildVars, tplVars, cfgVars, renders, readVars, fetchList, fileVars>>

\* the user moves back or forward in the history: the popstate listener
PopState ==
    /\ \E to \in {historyIndex - 1, historyIndex + 1}, fetches \in BOOLEAN :
          /\ to \in 1..Len(history)
          /\ historyIndex' = to
          /\ LET r == handleRouteChange(history[to], spaState, handling, fetches)
             IN  spaState' = r.state /\ handling' = r.handling /\ lastCall' = r.call
    /\ UNCHANGED <<history, pagVars, buildVars, tplVars, cfgVars, renders, readVars, fetchList, fileVars>>

\* the fetch of a waiting route handler settles; whether the handler returns
\* or throws, the finally block of handleRouteChange runs
HandlerSettles ==
    /\ handling # <<>>
    /\ handling' = Tail(handling)
    /\ spaState' = [spaState EXCEPT !.isLoading = FALSE]
    /\ UNCHANGED <<history, historyIndex, lastCall, pagVars, buildVars, tplVars,
                   cfgVars, renders, readVars, fetchList, fileVars>>

\* refreshContent: handleRouteChange(state.currentRoute || location.pathname)
RefreshContent ==
    /\ \E fetches \in BOOLEAN :
          LET pathname == IF spaState.currentRoute \in {Null, ""} THEN Location
                          ELSE spaState.currentRoute
              r == handleRouteChange(pathname, spaState, handling, fetches)
          IN  spaState' = r.state /\ handling' = r.handling /\ lastCall' = r.call
    /\ UNCHANGED <<history, historyIndex, pagVars, buildVars, tplVars, cfgVars,
                   renders, readVars, fetchList, fileVars>>

NextRouter == NavigateTo \/ PopState \/ HandlerSettles \/ RefreshContent

SpecRouter == InitRouter /\ [][NextRouter]_vars

\* C24: state.isLoading is true exactly while one route change waits for
\* its route handler, no two route changes are handled at a time, and a
\* call made while isLoading is true runs no route handler.
C24_IsLoadingGuardsRouteChange ==
    /\ Len(handling) <= 1
    /\ spaState.isLoading <=> (handling # <<>>)
    /\ lastCall.whileLoading => ~lastCall.ran

\* a route change was started, a second call came while it was loading and
\* ran nothing, and the first has ended
C24_Witness ==
    /\ lastCall.whileLoading /\ ~lastCall.ran
    /\ handling = <<>> /\ ~spaState.isLoading
    /\ spaState.currentRoute # Null

\* C25: when no route change is being handled and one has been handled
\* before, state.currentRoute is the pathname of the location.
C25_CurrentRouteIsLocation ==
    (handling = <<>> /\ spaState.currentRoute # Null) =>
        spaState.currentRoute = Location

(***************************************************************************)
(* SpecFetch: fetchContentList of the application's content module.  One   *)
(* step is one turn of its while loop up to the next await of a timer, or  *)
(* the timer firing.                                                       *)
(***************************************************************************)
maxRetries == 3
MaxListLen == 2       \* longest index.json
\* what a fetch of index.json can bring: an array, a response that is not
\* ok, a body that is no array, a rejected fetch, an array with a null item
FetchOutcomes == {"array", "notOk", "notArray", "rejected", "nullItem"}
ListItems ==
    {[slug |-> "", path |-> "content/posts/a.md", date |-> 1],
     [slug |-> "b", path |-> "", date |-> 2],
     [slug |-> "c", path |-> "content/posts/x.md", date |-> 2]}

\* path.split('/') and its last part
RECURSIVE LastPart(_, _)
LastPart(path, i) ==
    IF i = 0 THEN path
    ELSE IF SubSeq(path, i, i) = "/" THEN SubSeq(path, i + 1, Len(path))
    ELSE LastPart(path, i - 1)
\* filename.replace(/\.md$/, '')
WithoutMd(filename) ==
    IF EndsWith(filename, ".md") THEN SubSeq(filename, 1, Len(filename) - 3)
    ELSE filename

\* the callback of data.map: slug and file are filled in from the path
processItem(item) ==
    LET filename == LastPart(item.path, Len(item.path))
    IN  [slug |-> IF item.slug = "" /\ item.path # "" THEN WithoutMd(filename)
                  ELSE item.slug,
         file |-> IF item.path # "" THEN filename ELSE "",
         path |-> item.path, date |-> item.date]
processData(list) == SortNewestFirst([i \in 1..Len(list) |-> processItem(list[i])], <<>>)

\* the catch block: the attempt is counted, the third failure is thrown on,
\* any other waits retries * 1000 ms
\* faulty variant: the error is thrown on only when retries is above maxRetries
afterFailure_offByOne(f, outcome) ==
    [f EXCEPT !.retries = @ + 1,
              !.outcomes = Append(@, outcome),
              !.status = IF f.retries + 1 > maxRetries THEN "threw" ELSE "waiting"]

afterFailure(f, outcome) ==
    [f EXCEPT !.retries = @ + 1,
              !.outcomes = Append(@, outcome),
              !.status = IF f.retries + 1 >= maxRetries THEN "threw" ELSE "waiting"]

InitFetch ==
    /\ fetchList = [FetchIdle EXCEPT !.status = "running"]
    /\ PagQuiet /\ BuildQuiet /\ TplQuiet /\ CfgQuiet /\ RendersQuiet /\ ReadQuiet
    /\ SpaQuiet /\ FileQuiet

\* the body of the while loop: one fetch and what follows from its outcome
FetchAttempt ==
    /\ fetchList.status = "running"
    /\ \E outcome \in FetchOutcomes, list \in SeqsUpTo(ListItems, MaxListLen) :
          fetchList' =
              IF outcome = "array"
              THEN [fetchList EXCEPT !.outcomes = Append(@, outcome),
                                     !.status = "returned",
                                     !.result = processData(list)]
              ELSE afterFailure(fetchList, outcome)
    /\ UNCHANGED <<pagVars, buildVars, tplVars, cfgVars, renders, readVars, spaVars, fileVars>>

\* the timer of the catch block fires and the condition of the while loop is
\* tested; behind the loop the function ends without a return value
RetryTimer ==
    /\ fetchList.status = "waiting"
    /\ fetchList' = [fetchList EXCEPT
                        !.status = IF fetchList.retries < maxRetries
                                   THEN "running" ELSE "returnedUndefined"]
    /\ UNCHANGED <<pagVars, buildVars, tplVars, cfgVars, renders, readVars, spaVars, fileVars>>

NextFetch == FetchAttempt \/ RetryTimer

SpecFetch == InitFetch /\ [][NextFetch]_vars

FetchEnded == fetchList.status \in {"returned", "threw", "returnedUndefined"}
Failures == SelectSeq(fetchList.outcomes, LAMBDA o : o # "array")

\* C26: a call makes 3 fetches at most; it returns the list of the first
\* fetch that brings one, and a call whose third fetch has failed ends by
\* throwing, never by returning.
C26_ThreeAttemptsThenThrow ==
    fetchList.status # "idle" =>
        /\ Len(fetchList.outcomes) <= 3
        /\ fetchList.status = "returned" =>
              /\ fetchList.outcomes[Len(fetchList.outcomes)] = "array"
              /\ Len(Failures) = Len(fetchList.outcomes) - 1
        /\ (FetchEnded /\ Len(Failures) = Len(fetchList.outcomes)) =>
              /\ fetchList.status = "threw"
              /\ Len(fetchList.outcomes) = 3
        /\ Len(Failures) = 3 => fetchList.status = "threw"

\* two fetches failed and the third brought a list of two items
C26_Witness ==
    /\ fetchList.status = "returned"
    /\ Len(fetchList.outcomes) = 3
    /\ Len(fetchList.result) = 2

(***************************************************************************)
(* SpecFiles: the file cache of the file handler (readFile, writeFile,     *)
(* updateConfig).  Files are numbered; a content is "" for an empty file.  *)
(* Time is counted in units, cacheTTL in the same units.  readFile waits   *)
(* for the disk between getFromCache and addToCache, so calls interleave   *)
(* there; everything else runs to its end.                                 *)
(*                                                                         *)
(* The runs start from an empty cache or from one that earlier reads of    *)
(* the files 1..n have filled, n close to MAX_CACHE_SIZE.                  *)
(***************************************************************************)
MAX_CACHE_SIZE == 100
MaxOps == 2           \* calls of readFile, writeFile and updateConfig in a run
MaxTime == 3          \* the clock stops here
WarmUps == {0, MAX_CACHE_SIZE - 1, MAX_CACHE_SIZE}
Contents == {"", "text"}
TTLs == {1, 2}

CacheIndex(c, filePath) ==
    IF \E i \in 1..Len(c) : c[i].path = filePath
    THEN CHOOSE i \in 1..Len(c) : c[i].path = filePath ELSE 0
CacheDelete(c, filePath) == SelectSeq(c, LAMBDA e : e.path # filePath)
\* Map.prototype.set: a new key goes to the end, a key that is present
\* keeps its place
CacheSet(c, e) ==
    IF CacheIndex(c, e.path) = 0 THEN Append(c, e)
    ELSE [c EXCEPT ![CacheIndex(c, e.path)] = e]

\* faulty variant: the oldest entry is evicted only above the maximum
addToCache_evictLate(c, cfg, now, filePath, content) ==
    IF ~cfg.enableCache THEN c
    ELSE CacheSet(IF Len(c) > MAX_CACHE_SIZE THEN Tail(c) ELSE c,
                  [path |-> filePath, content |-> content, timestamp |-> now])

addToCache(c, cfg, now, filePath, content) ==
    IF ~cfg.enableCache THEN c
    ELSE CacheSet(IF Len(c) >= MAX_CACHE_SIZE THEN Tail(c) ELSE c,
                  [path |-> filePath, content |-> content, timestamp |-> now])

\* getFromCache: the content or Null, and the cache it leaves
\* faulty variant: an entry is served whatever its age
getFromCache_noExpiry(c, cfg, now, filePath) ==
    IF ~cfg.enableCache \/ CacheIndex(c, filePath) = 0
    THEN [content |-> Null, cache |-> c]
    ELSE [content |-> c[CacheIndex(c, filePath)].content, cache |-> c]

getFromCache(c, cfg, now, filePath) ==
    IF ~cfg.enableCache \/ CacheIndex(c, filePath) = 0
    THEN [content |-> Null, cache |-> c]
    ELSE IF now - c[CacheIndex(c, filePath)].timestamp > cfg.cacheTTL
    THEN [content |-> Null, cache |-> CacheDelete(c, filePath)]
    ELSE [content |-> c[CacheIndex(c, filePath)].content, cache |-> c]

\* what fileLog.add tells of a call of addToCache that turned cache c into
\* cache after: whether c was full, its oldest key, and the key c lost from
\* its head
AddLog(c, after, cfg, filePath) ==
    IF ~cfg.enableCache THEN NoAdd
    ELSE [path |-> filePath, full |-> Len(c) >= MAX_CACHE_SIZE,
          oldest |-> IF c = <<>> THEN 0 ELSE c[1].path,
          evicted |-> IF c # <<>> /\ CacheIndex(after, c[1].path) # 1
                      THEN c[1].path ELSE 0]

\* the files a run reads and writes: the oldest and the newest of the cache
\* and one that is not in it
FileChoices ==
    (IF fileCache = <<>> THEN {} ELSE {fileCache[1].path, fileCache[Len(fileCache)].path})
    \cup {MAX_CACHE_SIZE + 1 + fileLog.ops}

InitFiles ==
    /\ \E n \in WarmUps :
          fileCache = [i \in 1..n |-> [path |-> i, content |-> "text", timestamp |-> 0]]
    /\ \E ttl \in TTLs : fileConfig = [enableCache |-> TRUE, cacheTTL |-> ttl]
    /\ clock = 0 /\ pendingReads = <<>>
    /\ fileLog = [ops |-> 0, read |-> NoRead, add |-> NoAdd]
    /\ PagQuiet /\ BuildQuiet /\ TplQuiet /\ CfgQuiet /\ RendersQuiet /\ ReadQuiet
    /\ SpaQuiet /\ FetchQuiet

\* readFile up to its return of cached content or to the await of the disk
ReadFile ==
    /\ fileLog.ops < MaxOps
    /\ \E filePath \in FileChoices :
          LET i == CacheIndex(fileCache, filePath)
              age == IF i = 0 THEN 0 ELSE clock - fileCache[i].timestamp
              got == getFromCache(fileCache, fileConfig, clock, filePath)
              served == got.content \notin {Null, ""}
          IN  /\ fileCache' = got.cache
              /\ pendingReads' = IF served THEN pendingReads
                                 ELSE Append(pendingReads, filePath)
              /\ fileLog' = [fileLog EXCEPT
                    !.ops = @ + 1,
                    !.read = [path |-> filePath, fromCache |-> served, age |-> age,
                              ttl |-> fileConfig.cacheTTL,
                              expired |-> fileConfig.enableCache /\ i # 0
                                          /\ age > fileConfig.cacheTTL,
                              removed |-> CacheIndex(got.cache, filePath) = 0]]
    /\ UNCHANGED <<fileConfig, clock>>
    /\ UNCHANGED <<pagVars, buildVars, tplVars, cfgVars, renders, readVars, spaVars,
                   fetchList>>

\* the disk answers a waiting readFile: the content is cached and returned,
\* or the read fails and handleOperation throws the error on
ReadCompletes ==
    /\ pendingReads # <<>>
    /\ \E i \in 1..Len(pendingReads), content \in Contents, failed \in BOOLEAN :
          /\ pendingReads' = [j \in 1..(Len(pendingReads) - 1) |->
                                 IF j < i THEN pendingReads[j] ELSE pendingReads[j + 1]]
          /\ fileCache' = IF failed THEN fileCache
                          ELSE addToCache(fileCache, fileConfig, clock,
                                          pendingReads[i], content)
          /\ fileLog' = IF failed THEN fileLog
                        ELSE [fileLog EXCEPT
                                !.add = AddLog(fileCache, fileCache', fileConfig,
                                               pendingReads[i])]
    /\ UNCHANGED <<fileConfig, clock>>
    /\ UNCHANGED <<pagVars, buildVars, tplVars, cfgVars, renders, readVars, spaVars,
                   fetchList>>

\* writeFile: the content written is put into the cache
WriteFile ==
    /\ fileLog.ops < MaxOps
    /\ \E filePath \in FileChoices, content \in Contents :
          /\ fileCache' = addToCache(fileCache, fileConfig, clock, filePath, content)
          /\ fileLog' = [fileLog EXCEPT
                          !.ops = @ + 1,
                          !.add = AddLog(fileCache, fileCache', fileConfig, filePath)]
    /\ UNCHANGED <<fileConfig, clock, pendingReads>>
    /\ UNCHANGED <<pagVars, buildVars, tplVars, cfgVars, renders, readVars, spaVars,
                   fetchList>>

\* updateConfig: a cache that is switched off is cleared
UpdateConfig ==
    /\ fileLog.ops < MaxOps
    /\ \E enable \in BOOLEAN, ttl \in TTLs :
          /\ fileConfig' = [enableCache |-> enable, cacheTTL |-> ttl]
          /\ fileConfig' # fileConfig
          /\ fileCache' = IF enable THEN fileCache ELSE <<>>
    /\ fileLog' = [fileLog EXCEPT !.ops = @ + 1]
    /\ UNCHANGED <<clock, pendingReads>>
    /\ UNCHANGED <<pagVars, buildVars, tplVars, cfgVars, renders, readVars, spaVars,
                   fetchList>>

Tick ==
    /\ clock < MaxTime
    /\ clock' = clock + 1
    /\ UNCHANGED <<fileCache, fileConfig, pendingReads, fileLog>>
    /\ UNCHANGED <<pagVars, buildVars, tplVars, cfgVars, renders, readVars, spaVars,
                   fetchList>>

NextFiles == ReadFile \/ ReadCompletes \/ WriteFile \/ UpdateConfig \/ Tick

SpecFiles == InitFiles /\ [][NextFiles]_vars

(***************************************************************************)
(* Properties of the file cache                                            *)
(***************************************************************************)
\* C29: the file cache never holds more than MAX_CACHE_SIZE entries; an
\* entry added to a full cache first evicts the oldest-inserted entry, and
\* nothing is evicted from a cache that is not full
C29_CacheBoundedEvictsOldest ==
    /\ Len(fileCache) <= MAX_CACHE_SIZE
    /\ fileLog.add.full => fileLog.add.evicted = fileLog.add.oldest
    /\ fileLog.add.evicted # 0 => fileLog.add.full

\* an entry for a new file was added to a full cache, which lost file 1
C29_Witness ==
    /\ fileLog.add.full /\ fileLog.add.evicted = 1
    /\ fileLog.add.path > MAX_CACHE_SIZE
    /\ Len(fileCache) = MAX_CACHE_SIZE

\* C30: readFile never returns cached content older than cacheTTL; an
\* expired entry is removed on access and the file goes to the disk again
C30_NoExpiredContent ==
    /\ fileLog.read.fromCache => fileLog.read.age <= fileLog.read.ttl
    /\ fileLog.read.expired => ~fileLog.read.fromCache /\ fileLog.read.removed

\* an expired entry was asked for, removed, and the file is read from disk
C30_Witness ==
    /\ fileLog.read.expired /\ fileLog.read.removed
    /\ \E i \in 1..Len(pendingReads) : pendingReads[i] = fileLog.read.path

(***************************************************************************)
(* Properties of the post paths of siteBuilder                             *)
(***************************************************************************)
PostsLoaded == buildPc \in {"sbLoaded", "sbDone", "sbFailed"}
PostFilesWritten ==
    {written[i].path : i \in {j \in 1..Len(written) : StartsWith(written[j].path, "posts/")}}

\* C27: every loaded post has the url /posts/<name>/ of a content file
\* <name>.md, no two posts have the same name, and the post pages written
\* are posts/<name>/index.html for exactly the content files.
C27_PostPathFromFilename ==
    PostsLoaded =>
        /\ \A i \in 1..Len(posts) :
              \E j \in 1..Len(files) :
                  /\ posts[i].file = files[j].file
                  /\ posts[i].url = "/posts/" \o files[j].file \o "/"
        /\ \A i, j \in 1..Len(posts) : i # j => posts[i].file # posts[j].file
        /\ buildPc = "sbDone" =>
              PostFilesWritten =
                  {"posts/" \o files[j].file \o "/index.html" : j \in 1..Len(files)}

(***************************************************************************)
(* Properties of the page contexts of the write loop                       *)
(***************************************************************************)
\* the write loop has built a context; LastPage is the page it was built for
ContextBuilt ==
    /\ buildPc \in {"generated", "done", "failed"}
    /\ (written # <<>> \/ buildPc = "failed")
LastPage ==
    IF buildPc = "failed" THEN sitePages[Len(written) + 1]
    ELSE sitePages[Len(written)]
OwnKeys(page) == DOMAIN page \ {"data", "template", "url"}
LiteralKeys == {"site", "post", "tag", "pagination", "posts"}

PageItems(p) ==
    IF "itemsForPage" \in DOMAIN p THEN p.itemsForPage ELSE p.posts

RECURSIVE ConcatPages(_)
ConcatPages(ps) ==
    IF ps = <<>> THEN <<>> ELSE PageItems(Head(ps)) \o ConcatPages(Tail(ps))

\* the page size the paginator itself was called with
CalledDirectly == pagResult.impl \in {"paginateItems", "generatePagination", "generatePages"}

\* ceil(n / p) for n >= 0, p >= 1, by its defining inequalities
CeilOf(n, p) == CHOOSE k \in 0..n : k * p >= n /\ (k - 1) * p < n

\* C1: for every list and every pageSize >= 1 the pages, concatenated in page
\* order, are the input list: each item is in exactly one page, order kept.
C1_ConcatReproducesItems ==
    (CalledDirectly /\ pageSize >= 1) =>
        /\ pagResult.status = "returned"
        /\ ConcatPages(pagResult.pages) = items

C1_Witness ==
    /\ CalledDirectly /\ pagResult.status = "returned"
    /\ pageSize = 2 /\ Len(items) = 3 /\ items[1] # items[2]
    /\ Len(pagResult.pages) = 2
    /\ pagResult.impl = "paginateItems"

\* C2: for n >= 1 items and pageSize >= 1 exactly ceil(n / pageSize) pages
C2_PageCountIsCeil ==
    (CalledDirectly /\ pageSize >= 1 /\ Len(items) >= 1) =>
        /\ pagResult.status = "returned"
        /\ Len(pagResult.pages) = CeilOf(Len(items), pageSize)

C2_Witness ==
    /\ pagResult.impl = "generatePagination" /\ pagResult.status = "returned"
    /\ Len(items) = 3 /\ pageSize = 2 /\ Len(pagResult.pages) = 2

\* C3: zero items give exactly one page, numbered 1, with no items and
\* totalPages = 1, never an empty sequence of pages
C3_EmptyListHasPageOne ==
    (CalledDirectly /\ items = <<>> /\ pageSize >= 1) =>
        /\ pagResult.status = "returned"
        /\ Len(pagResult.pages) = 1
        /\ PageItems(pagResult.pages[1]) = <<>>

\* C4: a pageSize below 1 fails with a ConfigurationError, no pages returned
C4_InvalidPageSizeFails ==
    (pagResult.status # "idle" /\ pageSize < 1) =>
        /\ pagResult.status = "ConfigurationError"
        /\ pagResult.pages = <<>>

\* the paginator returned; page i of its result
Returned == pagResult.status = "returned"
ViaPaginateItems == pagResult.impl \in {"paginateItems", "buildHomePage", "loadConfig"}
PageNo(p) ==
    IF pagResult.impl = "generatePagination" THEN p.number
    ELSE IF pagResult.impl = "generatePages" THEN p.pagination.currentPage
    ELSE p.page
HasPrevious(p) ==
    IF pagResult.impl = "generatePagination" THEN p.hasPrev
    ELSE IF pagResult.impl = "generatePages" THEN p.pagination.prevPage # Null
    ELSE p.links.prev # Null
HasNext(p) ==
    IF pagResult.impl = "generatePagination" THEN p.hasNext
    ELSE IF pagResult.impl = "generatePages" THEN p.pagination.nextPage # Null
    ELSE p.links.next # Null

\* C22: the pages a paginator returns are numbered 1, 2, ...; a page has a
\* previous page exactly when its number is above 1 and a next page exactly
\* when its number is below the number of pages.
C22_PreviousAndNextFlags ==
    Returned =>
        \A i \in 1..Len(pagResult.pages) :
            LET p == pagResult.pages[i]
            IN  /\ PageNo(p) = i
                /\ HasPrevious(p) <=> (PageNo(p) > 1)
                /\ HasNext(p) <=> (PageNo(p) < Len(pagResult.pages))

\* buildHomePage returned three pages or more: a first, a middle and a last
C22_Witness ==
    /\ Returned /\ pagResult.impl = "buildHomePage"
    /\ Len(pagResult.pages) >= 3
    /\ ~HasPrevious(pagResult.pages[1]) /\ HasNext(pagResult.pages[1])
    /\ HasPrevious(pagResult.pages[2]) /\ HasNext(pagResult.pages[2])
    /\ ~HasNext(pagResult.pages[Len(pagResult.pages)])

\* the links a home page offers, by paginator
OfferedLinks(p) ==
    IF pagResult.impl = "generatePagination"
    THEN (IF Greater(p.total, 1) /\ p.hasPrev THEN {p.prevUrl} ELSE {})
         \cup (IF Greater(p.total, 1) /\ p.hasNext THEN {p.nextUrl} ELSE {})
    ELSE IF pagResult.impl = "generatePages"
    THEN {p.pagination.prevPage, p.pagination.nextPage} \ {Null}
    ELSE ({p.links.prev, p.links.next} \ {Null})
         \cup {p.links.numbered[i] : i \in 1..Len(p.links.numbered)}
\* the files the build writes for home page p
HomeFiles(p) ==
    IF pagResult.impl = "generatePagination"
    THEN (IF p.number = 1 THEN {"index.html"}
          ELSE {"page/" \o ToString(p.number) \o "/index.html",
                "page/" \o ToString(p.number) \o ".html"})
    ELSE IF pagResult.impl = "generatePages" THEN {FinalPath(p.pageSlug)}
    ELSE {HomePaths(<<p>>)[1].path}
HomeUrls ==
    UNION {ServedAt(f) : f \in UNION {HomeFiles(pagResult.pages[i]) :
                                          i \in 1..Len(pagResult.pages)}}

\* C28: every previous, next and numbered link of a home page leads to a
\* home page of the same paginator run.
C28_LinksTargetHomePages ==
    Returned =>
        \A i \in 1..Len(pagResult.pages) :
            OfferedLinks(pagResult.pages[i]) \subseteq HomeUrls

\* buildHomePage returned four pages; the first offers the pages 2 and 3,
\* the last page and the next page
C28_Witness ==
    /\ Returned /\ pagResult.impl = "buildHomePage"
    /\ Len(pagResult.pages) = 4
    /\ Cardinality(OfferedLinks(pagResult.pages[1])) = 3
    /\ "/page/4/" \in OfferedLinks(pagResult.pages[1])
    /\ "/" \in OfferedLinks(pagResult.pages[4])

====
